---- MODULE Spec2Model ----
(***************************************************************************)
(* The file inclusion decision engine of the project context gatherer, in  *)
(* its two implementations: src/copy.py (FileFilter.should_include, one    *)
(* prioritised sequence of checks) and src/llmcontext.py (FileFilter with  *)
(* an ordered list of FilterRule objects).                                 *)
(*                                                                         *)
(* Strings are Python strings; a path is the tuple of its root-relative    *)
(* segments (Path.parts).  An optional value (Optional[...]) is a set with *)
(* at most one element: None is {} and a present value v is {v}.           *)
(***************************************************************************)
EXTENDS Integers, Sequences, FiniteSets, TLC

VARIABLES
  program,            \* which implementation runs: "copy" or "llmcontext"
  args,               \* the parsed command line the configuration is built from
  repo,               \* the environment: what .gitignore matches, what git tracks
  file_filter,        \* Optional: the FileFilter object once it is constructed
  pc,                 \* "start" before the filter is built, "ready" between
                      \* two files of the scan, "decided" once one is decided;
                      \* in a walk "scanning", "scanned", "done", "finished"
  decision,           \* Optional: the last (file, included, reason) returned
  fs,                 \* Optional: the directory tree under the root, for a walk
  scanner,            \* Optional: the ProjectScanner object of the running walk
  analysis,           \* Optional: what the run hands to the formatter
  runs                \* the results of the runs that have finished

vars == <<program, args, repo, file_filter, pc, decision, fs, scanner, analysis, runs>>

None == {}
Some(v) == {v}
Value(opt) == CHOOSE v \in opt : TRUE

-----------------------------------------------------------------------------
(* Constants of src/copy.py *)

DEFAULT_EXCLUDED_DIRS_copy ==
  {
    ".git", ".svn", ".hg", ".bzr", "node_modules", "vendor", ".tap", "venv", "env",
    ".venv", "ENV", "virtualenv", "build", "dist", "target", "out", "bin", "obj",
    "__pycache__", ".cache", "cache", ".pytest_cache", ".mypy_cache", ".tox", ".idea",
    ".vscode", "logs", "log", "coverage", "htmlcov", ".terraform", ".next", ".nuxt",
    "public", "static", "tests", "__tests__", "test", "docs", "documentation"
  }

\* The tuple as Python builds it: adjacent literals without a comma are
\* concatenated (".sql" "*.md" is the one pattern ".sql*.md").
DEFAULT_EXCLUDED_PATTERNS_copy ==
  {
    "*.pyc", "*.pyo", "*.pyd", "*.so", "*.o", "*.a", "*.lib", "*.dylib", "*.bundle",
    "*.dll", "*.exe", "*.class", "*.jar", "*.war", "*.ear", ".tap", "*.log",
    "*.tsbuildinfo", "*.swp", "*.swo", "*~", "#*#", ".DS_Store", "Thumbs.db",
    "*.patch", "*.diff", "*.lock", "pnpm-lock.yaml", "yarn.lock", "package-lock.json",
    "poetry.lock", "composer.lock", "Gemfile.lock", "*.tfstate", "*.tfstate.backup",
    "*.bak", "*.tmp", "*.temp", "*.min.*", "*.map", ".editorconfig", ".gitattributes",
    ".gitmodules", ".env*", "tsconfig.json", "tsconfig.*.json", "*.spec.*", "*.test.*",
    "*.csv", "*.tsv", "*.xml", "*.yaml", "*.yml", "*.htm", "*.html", "*.css",
    ".sql*.md", "*.markdown", ".rst", "*.json", "*.jsonc", ".yaml", ".yml", ".xml",
    ".html", ".htm", ".css", ".sql", ".csv", ".tsv", ".md", ".markdown",
    "package.json", "**/package.json"
  }

FILES_TO_ALWAYS_CHECK_copy ==
  {
    ".env.example", "Cargo.toml", "Dockerfile", "README.md", "docker-compose.yaml",
    "docker-compose.yml", "go.mod", "go.sum", "pyproject.toml", "requirements.txt"
  }

SKIP_ALWAYS ==
  {
    ".env", ".eslintrc.js", ".gitignore", ".prettierignore", ".prettierrc",
    ".prettierrc.js", ".tap", "LICENSE", "bun.lock", "eslint.config.js",
    "package-lock.json", "package.json", "pnpm-lock.yaml", "tsconfig.json"
  }

(* Constants of src/llmcontext.py *)

DEFAULT_EXCLUDED_DIRS_llm ==
  {
    ".bzr", ".cache", ".git", ".hg", ".idea", ".mypy_cache", ".next", ".nuxt",
    ".pytest_cache", ".svn", ".tap", ".terraform", ".tox", ".venv", ".vscode", "ENV",
    "__pycache__", "__tests__", "assets", "bin", "build", "cache", "coverage", "demos",
    "dist", "docs", "documentation", "downloads", "env", "examples", "fonts",
    "htmlcov", "icons", "images", "img", "log", "logs", "media", "node_modules", "obj",
    "out", "previews", "public", "resources", "screenshots", "static", "target",
    "test", "tests", "thumbnails", "uploads", "vendor", "venv", "virtualenv"
  }

DEFAULT_EXCLUDED_PATTERNS_llm ==
  {
    "#*#", "**/package.json", "*.3ds", "*.7z", "*.a", "*.ai", "*.avi", "*.bak",
    "*.blend", "*.bmp", "*.bundle", "*.class", "*.css", "*.csv", "*.dae", "*.diff",
    "*.dll", "*.doc", "*.docx", "*.dylib", "*.ear", "*.eot", "*.eps", "*.exe", "*.fbx",
    "*.fig", "*.flv", "*.gif", "*.gz", "*.htm", "*.html", "*.ico", "*.jar", "*.jpeg",
    "*.jpg", "*.json", "*.jsonc", "*.lib", "*.lock", "*.log", "*.map", "*.markdown",
    "*.md", "*.min.*", "*.mov", "*.mp3", "*.mp4", "*.o", "*.obj", "*.otf", "*.patch",
    "*.pdf", "*.png", "*.ppt", "*.pptx", "*.psd", "*.pyc", "*.pyd", "*.pyo", "*.rar",
    "*.sketch", "*.so", "*.spec.*", "*.svg", "*.swo", "*.swp", "*.tar", "*.temp",
    "*.test.*", "*.tfstate", "*.tfstate.backup", "*.tif", "*.tiff", "*.tmp",
    "*.tsbuildinfo", "*.tsv", "*.ttf", "*.war", "*.webm", "*.webp", "*.wmv", "*.woff",
    "*.woff2", "*.xd", "*.xls", "*.xlsx", "*.xml", "*.yaml", "*.yml", "*.zip", "*~",
    ".DS_Store", ".editorconfig", ".gitattributes", ".gitmodules", ".rst", ".sql",
    ".tap", "Gemfile.lock", "Thumbs.db", "composer.lock", "package-lock.json",
    "package.json", "pnpm-lock.yaml", "poetry.lock", "tsconfig.*.json",
    "tsconfig.json", "yarn.lock"
  }

FILES_TO_ALWAYS_CHECK_llm ==
  {
    ".env.example", "Cargo.toml", "Dockerfile", "README.md", "docker-compose.yaml",
    "docker-compose.yml", "go.mod", "go.sum", "pyproject.toml", "requirements.txt"
  }

FILES_TO_ALWAYS_SKIP ==
  {
    ".env", ".eslintrc.js", ".gitignore", ".prettierignore", ".prettierrc",
    ".prettierrc.js", ".tap", "LICENSE", "bun.lock", "eslint.config.js",
    "package-lock.json", "package.json", "pnpm-lock.yaml", "tsconfig.json",
    "worker-configuration.d.ts"
  }

-----------------------------------------------------------------------------
(* Python string and path helpers used by both implementations *)

CharAt(s, i) == SubSeq(s, i, i)

\* fnmatch.fnmatch(name, pat) on a POSIX system (normcase is the identity there):
\* "*" matches any run of characters, "/" included, "?" matches one character,
\* anything else matches itself, case-sensitively.  No pattern of this model
\* holds a "[" (no bracket expression).
RECURSIVE fnmatch_from(_, _, _, _)
fnmatch_from(name, i, pat, j) ==
  IF j > Len(pat) THEN i > Len(name)
  ELSE IF CharAt(pat, j) = "*"
       THEN IF j = Len(pat) THEN TRUE          \* the rest of the name
            ELSE IF CharAt(pat, j + 1) = "*"   \* a run of "*" is one "*"
              THEN fnmatch_from(name, i, pat, j + 1)
            ELSE \/ fnmatch_from(name, i, pat, j + 1)
                 \/ (i <= Len(name) /\ fnmatch_from(name, i + 1, pat, j))
       ELSE /\ i <= Len(name)
            /\ (CharAt(pat, j) = "?" \/ CharAt(pat, j) = CharAt(name, i))
            /\ fnmatch_from(name, i + 1, pat, j + 1)

fnmatch(name, pat) == fnmatch_from(name, 1, pat, 1)

\* str(path.relative_to(root)).replace(os.sep, '/')
RECURSIVE posix_join(_)
posix_join(parts) ==
  IF Len(parts) = 1 THEN parts[1] ELSE parts[1] \o "/" \o posix_join(Tail(parts))

rel_path_posix(f) == posix_join(f.parts)

\* Path.name: the last segment
filename(f) == f.parts[Len(f.parts)]

\* rel_parts[:-1]: the ancestor directory names, outermost first
parent_parts(f) == SubSeq(f.parts, 1, Len(f.parts) - 1)

\* str.rfind('.') as a 1-based index, 0 when there is no dot
rfind_dot(name) ==
  LET dots == {i \in 1..Len(name) : CharAt(name, i) = "."}
  IN  IF dots = {} THEN 0 ELSE CHOOSE i \in dots : \A k \in dots : k <= i

\* Path.suffix: from the last dot on, unless the dot is the first or the last
\* character of the name (".env" and "a." have no suffix)
suffix(name) ==
  LET i == rfind_dot(name)
  IN  IF 1 < i /\ i < Len(name) THEN SubSeq(name, i, Len(name)) ELSE ""

UpperLetters == "ABCDEFGHIJKLMNOPQRSTUVWXYZ"
LowerLetters == "abcdefghijklmnopqrstuvwxyz"

lower_char(c) ==
  LET at == {k \in 1..Len(UpperLetters) : CharAt(UpperLetters, k) = c}
  IN  IF at = {} THEN c ELSE CharAt(LowerLetters, CHOOSE k \in at : TRUE)

\* str.lower()
RECURSIVE lower(_)
lower(s) ==
  IF Len(s) = 0 THEN "" ELSE lower_char(CharAt(s, 1)) \o lower(SubSeq(s, 2, Len(s)))

\* str.endswith(suffix) and the substring test `sub in s`
endswith(s, suf) ==
  Len(suf) <= Len(s) /\ SubSeq(s, Len(s) - Len(suf) + 1, Len(s)) = suf

contains(s, sub) ==
  \E i \in 1..(Len(s) - Len(sub) + 1) : SubSeq(s, i, i + Len(sub) - 1) = sub

\* fnmatch(filename, p) or fnmatch(rel_path_posix, p) for some p of `patterns`
matches_any(f, patterns) ==
  \E p \in patterns : fnmatch(filename(f), p) \/ fnmatch(rel_path_posix(f), p)

\* The number of leading bytes both implementations read to sniff for NUL
SniffLen == 1024

\* b'\x00' in f.read(1024): f.nul is the offset of the file's first NUL byte
\* (Optional; None when it has none)
nul_in_chunk(f) == \E off \in f.nul : off < SniffLen

\* A decision (include_bool, reason_string); `raised` marks an exception that
\* leaves should_include instead of a returned tuple.
Return(inc, why) == [included |-> inc, reason |-> why, raised |-> FALSE]
Raise(what) == [included |-> FALSE, reason |-> what, raised |-> TRUE]

-----------------------------------------------------------------------------
(* The files of the project directory *)

\* What the filesystem answers for a file: its size, the offset of its first
\* NUL byte (Optional), whether open() and stat() succeed
PlainProfile == [size |-> 2048, nul |-> None, readable |-> TRUE, stat_ok |-> TRUE]
LargeProfile == [PlainProfile EXCEPT !.size = 2049]
BinaryProfile == [PlainProfile EXCEPT !.nul = Some(1023)]
LateNulProfile == [PlainProfile EXCEPT !.nul = Some(1024)]
UnreadableProfile == [PlainProfile EXCEPT !.readable = FALSE]
NoStatProfile == [PlainProfile EXCEPT !.stat_ok = FALSE]

File(p, a) ==
  [parts |-> p, is_file |-> TRUE, size |-> a.size, nul |-> a.nul,
   readable |-> a.readable, stat_ok |-> a.stat_ok]

\* The regular files under the root that the scan hands to should_include
Files ==
  {File(<<"src", "main.py">>, a) :
     a \in {PlainProfile, LargeProfile, BinaryProfile, LateNulProfile,
            UnreadableProfile, NoStatProfile}}
  \cup {File(<<"README.md">>, a) :
          a \in {PlainProfile, LargeProfile, BinaryProfile, UnreadableProfile}}
  \cup {File(p, PlainProfile) :
          p \in {<<"scratch.txt">>, <<"secrets.json">>, <<".DS_Store">>,
                 <<"LICENSE">>, <<"package.json">>, <<"build", "README.md">>,
                 <<"node_modules", "pkg", "index.js">>,
                 <<"notes.md">>, <<"schema.sql">>, <<"docker-compose.yaml">>,
                 <<"n.py">>, <<"lib", "main.d", "x.json">>}}

\* len(content) of a file of lc lines in this universe
CharsPerLine == 8

\* One entry of the directory tree under the root, as the walk sees it: a
\* regular file (with the line count and the search words of its content that
\* the relevance score reads), a directory, or a symbolic link to either.
\* access is "ok", or "denied" (listing
\* the directory or opening the file raises PermissionError), or "vanished"
\* (the file is there while the directory is walked and gone afterwards)
Entry(p, k, t, lc, kw) ==
  [parts |-> p, kind |-> k, target |-> t, line_count |-> lc, keywords |-> kw,
   char_count |-> CharsPerLine * lc, access |-> "ok"]

RegularFile(p, lc, kw) == Entry(p, "file", "none", lc, kw)
Directory(p) == Entry(p, "dir", "none", 0, {})
Symlink(p, t) == Entry(p, "symlink", t, 0, {})

is_symlink_never(e) == FALSE

\* Path.is_symlink, Path.is_file, Path.is_dir (the last two follow links)
is_symlink(e) == e.kind = "symlink"
is_file(e) == e.kind = "file" \/ (e.kind = "symlink" /\ e.target = "file")
is_dir(e) == e.kind = "dir" \/ (e.kind = "symlink" /\ e.target = "dir")

\* The entries a project may hold, in one order of enumeration
BaseEntries ==
  << RegularFile(<<"10_b.py">>, 5, {}),
     RegularFile(<<"2_a.py">>, 5, {}),
     RegularFile(<<"README.md">>, 12, {}),
     Directory(<<"empty">>),
     Symlink(<<"link.py">>, "file"),
     Directory(<<"node_modules">>),
     RegularFile(<<"node_modules", "index.js">>, 80, {"function", "export default"}),
     Directory(<<"pkg">>),
     RegularFile(<<"pkg", "main.py">>, 4, {}),
     RegularFile(<<"pkg", "notes.log">>, 3, {}),
     Directory(<<"src">>),
     Directory(<<"src", "lib">>),
     RegularFile(<<"src", "lib", "util.py">>, 20, {"def "}),
     RegularFile(<<"src", "main.py">>, 60, {"def main", "def "}),
     Symlink(<<"srclink">>, "dir"),
     RegularFile(<<"srclink", "in.py">>, 1, {}) >>

\* The parts of a project that may be missing, each present or absent as a whole
OptionalGroups ==
  { {<<"10_b.py">>, <<"2_a.py">>},
    {<<"README.md">>},
    {<<"empty">>, <<"pkg">>, <<"pkg", "main.py">>, <<"pkg", "notes.log">>},
    {<<"link.py">>, <<"srclink">>, <<"srclink", "in.py">>},
    {<<"node_modules">>, <<"node_modules", "index.js">>},
    {<<"src", "lib">>, <<"src", "lib", "util.py">>} }

Reverse(seq) == [i \in 1..Len(seq) |-> seq[Len(seq) + 1 - i]]

IsAbsent(e, absent) == \E g \in absent : e.parts \in g

\* A filesystem state is the sequence of its entries: the entries of one
\* directory come in the order os.scandir yields them
FileSystems ==
  {SelectSeq(order, LAMBDA e : ~IsAbsent(e, absent)) :
     order \in {BaseEntries, Reverse(BaseEntries)},
     absent \in SUBSET OptionalGroups}

\* A file of the walk as should_include reads it
AsFile(e) ==
  File(e.parts, IF e.access = "denied" THEN UnreadableProfile ELSE PlainProfile)

\* The file names the default patterns are matched against
FileNames ==
  {filename(f) : f \in Files}
    \cup {filename(BaseEntries[i]) : i \in 1..Len(BaseEntries)}

-----------------------------------------------------------------------------
(* src/copy.py *)

\* Fault variant of get_git_tracked_files: the empty set instead of None when
\* git gives no data
get_git_tracked_files_copy_empty(r) ==
  IF r.tracked = None THEN Some({}) ELSE r.tracked

\* get_git_tracked_files: None when the git binary is missing
\* (FileNotFoundError), when rev-parse does not answer "true" (the root is no
\* work tree) or when git ls-files exits non-zero (CalledProcessError);
\* otherwise the set of tracked root-relative paths
get_git_tracked_files_copy(r) ==
  IF r.git = "missing_binary" THEN None
  ELSE IF r.tracked = None THEN None
  ELSE IF r.git = "nonzero_exit" THEN None
  ELSE r.tracked

\* Config.should_override_default_exclude
should_override_default_exclude(cfg, suf) ==
  suf \in DOMAIN cfg.override_defaults /\ cfg.override_defaults[suf]

\* Fault variant of is_likely_binary_file: a file that cannot be read counts
\* as text
is_likely_binary_file_unreadable_text(f) ==
  IF ~f.is_file THEN FALSE
  ELSE IF ~f.readable THEN FALSE
  ELSE nul_in_chunk(f)

\* is_likely_binary_file
is_likely_binary_file(f) ==
  IF ~f.is_file THEN FALSE
  ELSE IF ~f.readable THEN TRUE
  ELSE nul_in_chunk(f)

\* FileFilter.__init__: the ignore predicate and the tracked set by git mode
FileFilter_copy(cfg, r) ==
  LET use_gitignore_parsing == ~cfg.no_gitignore
      use_git_tracking == ~cfg.no_gitignore /\ ~cfg.gitignore_only
  IN  [gitignore_matcher |->
         IF use_gitignore_parsing /\ r.gitignore # None
         THEN r.gitignore
         ELSE Some({}),                      \* lambda _: False
       git_tracked_files |->
         IF use_git_tracking THEN get_git_tracked_files_copy(r) ELSE None]

\* any(part in excluded_dirs for part in rel_parts[:-1])
in_excluded_dir(cfg, f) ==
  \E k \in 1..Len(parent_parts(f)) : parent_parts(f)[k] \in cfg.excluded_dirs

\* The size test of steps 0 and 6; the caller has checked that stat() works
exceeds_max_size(cfg, f) == \E limit \in cfg.max_size : f.size > limit

\* Step 8's loop: fnmatch(filename, pattern) for some default pattern
matches_default_pattern_copy(name) ==
  \E pattern \in DEFAULT_EXCLUDED_PATTERNS_copy : fnmatch(name, pattern)

\* The loop's result for each file name of the project, computed once
default_match_copy == [name \in FileNames |-> matches_default_pattern_copy(name)]

\* Step 8: is_default_excluded, set only for a name with a suffix
is_default_excluded(f) ==
  /\ lower(suffix(filename(f))) # ""
  /\ default_match_copy[filename(f)]

\* FileFilter.should_include
should_include_copy(ff, cfg, f) ==
  LET use_full_git == /\ ~cfg.no_gitignore /\ ~cfg.gitignore_only
                      /\ ff.git_tracked_files # None
      use_gitignore_parsing == ~cfg.no_gitignore /\ ff.gitignore_matcher # None
      is_cli_included == matches_any(f, cfg.included_patterns)
      is_always_check == filename(f) \in FILES_TO_ALWAYS_CHECK_copy
  IN
  \* 0. Explicit CLI includes
  IF is_cli_included THEN
    IF cfg.max_size # None /\ ~f.stat_ok THEN Raise("OSError")
    ELSE IF exceeds_max_size(cfg, f) THEN Return(FALSE, "cli_include_max_size")
    ELSE IF ~cfg.include_binary /\ is_likely_binary_file(f)
      THEN Return(FALSE, "cli_include_binary")
    ELSE IF in_excluded_dir(cfg, f) THEN Return(FALSE, "cli_include_excluded_dir")
    ELSE IF filename(f) \in SKIP_ALWAYS THEN Return(FALSE, "cli_include_skip_always")
    ELSE Return(TRUE, "cli_include")
  \* 1. Always skip files
  ELSE IF filename(f) \in SKIP_ALWAYS THEN Return(FALSE, "always_skip")
  \* 2. Excluded directories
  ELSE IF in_excluded_dir(cfg, f) THEN Return(FALSE, "excluded_dir")
  \* 3. Explicit CLI exclude patterns
  ELSE IF matches_any(f, cfg.excluded_patterns) THEN Return(FALSE, "exclude_pattern")
  \* 4. Git ignore check
  ELSE IF /\ use_gitignore_parsing
          /\ rel_path_posix(f) \in Value(ff.gitignore_matcher)
          /\ ~is_cli_included
    THEN Return(FALSE, "gitignore")
  \* 5. Git tracking check
  ELSE IF /\ use_full_git
          /\ rel_path_posix(f) \notin Value(ff.git_tracked_files)
          /\ ~is_cli_included /\ ~is_always_check
    THEN Return(FALSE, "not_tracked")
  \* 6. Size limit
  ELSE IF cfg.max_size # None /\ ~f.stat_ok THEN Raise("OSError")
  ELSE IF exceeds_max_size(cfg, f) THEN Return(FALSE, "max_size")
  \* 7. Binary files
  ELSE IF ~cfg.include_binary /\ is_likely_binary_file(f) THEN Return(FALSE, "binary")
  \* 8. Default pattern exclusions
  ELSE IF /\ is_default_excluded(f)
          /\ ~should_override_default_exclude(cfg, lower(suffix(filename(f))))
          /\ ~is_cli_included /\ ~is_always_check
    THEN Return(FALSE, "default_pattern")
  \* 9. Always check files
  ELSE IF is_always_check THEN Return(TRUE, "always_check")
  ELSE Return(TRUE, "default")

-----------------------------------------------------------------------------
(* src/llmcontext.py *)

\* A rule's answer (passes, reason_if_fails)
Pass == [passes |-> TRUE, reason |-> ""]
Fail(why) == [passes |-> FALSE, reason |-> why]

\* Fault variant of AlwaysSkipRule: the skip list yields to --include, as the
\* gitignore, tracking and default-pattern rules do
AlwaysSkipRule_unless_included(f, cfg) ==
  IF filename(f) \in FILES_TO_ALWAYS_SKIP /\ ~matches_any(f, cfg.included_patterns)
  THEN Fail("always_skip")
  ELSE Pass

\* AlwaysSkipRule.passes
AlwaysSkipRule(f, cfg) ==
  IF filename(f) \in FILES_TO_ALWAYS_SKIP THEN Fail("always_skip") ELSE Pass

\* Fault variant of dir_part_fails: the exclude patterns are not applied to
\* the ancestor names
dir_part_fails_names_only(part, cfg) == part \in cfg.excluded_dirs

\* One ancestor name of DirectoryExcludeRule's loop fails the rule
dir_part_fails(part, cfg) ==
  \/ part \in cfg.excluded_dirs
  \/ \E pattern \in cfg.excluded_patterns : fnmatch(part, pattern)

\* Fault variant of DirectoryExcludeRule: only the immediate parent directory
\* is looked at
DirectoryExcludeRule_parent_only(f, cfg) ==
  LET parts == parent_parts(f)
  IN  IF parts = <<>> \/ ~dir_part_fails(parts[Len(parts)], cfg) THEN Pass
      ELSE IF parts[Len(parts)] \in cfg.excluded_dirs
           THEN Fail("excluded_dir")
           ELSE Fail("dir_matches_exclude_pattern")

\* DirectoryExcludeRule.passes: the ancestors outermost first, the first that
\* fails gives the reason
DirectoryExcludeRule(f, cfg) ==
  LET parts == parent_parts(f)
      bad == {k \in 1..Len(parts) : dir_part_fails(parts[k], cfg)}
  IN  IF bad = {} THEN Pass
      ELSE LET k == CHOOSE i \in bad : \A j \in bad : i <= j
           IN  IF parts[k] \in cfg.excluded_dirs
               THEN Fail("excluded_dir")
               ELSE Fail("dir_matches_exclude_pattern")

\* Fault variant of PatternRule: exclude patterns are matched against the bare
\* file name only
PatternRule_name_only(f, cfg) ==
  IF \E pattern \in cfg.excluded_patterns : fnmatch(filename(f), pattern)
  THEN Fail("exclude_pattern")
  ELSE IF cfg.include_only_mode /\ cfg.included_patterns # {}
    THEN IF \E pattern \in cfg.included_patterns :
              \/ fnmatch(filename(f), pattern)
              \/ fnmatch(rel_path_posix(f), pattern)
              \/ (contains(pattern, "**/") /\ endswith(pattern, filename(f)))
         THEN Pass
         ELSE Fail("include_only")
  ELSE Pass

\* PatternRule.passes
PatternRule(f, cfg) ==
  IF matches_any(f, cfg.excluded_patterns) THEN Fail("exclude_pattern")
  ELSE IF cfg.include_only_mode /\ cfg.included_patterns # {}
    THEN IF \E pattern \in cfg.included_patterns :
              \/ fnmatch(filename(f), pattern)
              \/ fnmatch(rel_path_posix(f), pattern)
              \/ (contains(pattern, "**/") /\ endswith(pattern, filename(f)))
         THEN Pass
         ELSE Fail("include_only")
  ELSE Pass

\* Fault variant of SizeRule: the comparison is >= instead of >
SizeRule_at_least(f, cfg) ==
  IF cfg.max_size_bytes = None THEN Pass
  ELSE IF ~f.stat_ok THEN Fail("cannot_stat")
  ELSE IF f.size >= Value(cfg.max_size_bytes) THEN Fail("max_size")
  ELSE Pass

\* SizeRule.passes
SizeRule(f, cfg) ==
  IF cfg.max_size_bytes = None THEN Pass
  ELSE IF ~f.stat_ok THEN Fail("cannot_stat")
  ELSE IF f.size > Value(cfg.max_size_bytes) THEN Fail("max_size")
  ELSE Pass

\* BinaryRule.passes
BinaryRule(f, cfg) ==
  IF cfg.include_binary THEN Pass
  ELSE IF ~f.readable THEN Fail("cannot_read")
  ELSE IF nul_in_chunk(f) THEN Fail("binary")
  ELSE Pass

\* DefaultPatternRule's loop: fnmatch(filename, pattern) for some default pattern
matches_default_pattern_llm(name) ==
  \E pattern \in DEFAULT_EXCLUDED_PATTERNS_llm : fnmatch(name, pattern)

\* The loop's result for each file name of the project, computed once
default_match_llm == [name \in FileNames |-> matches_default_pattern_llm(name)]

\* DefaultPatternRule.passes
DefaultPatternRule(f, cfg) ==
  LET suf == lower(suffix(filename(f)))
  IN  IF filename(f) \in FILES_TO_ALWAYS_CHECK_llm THEN Pass
      ELSE IF suf \in DOMAIN cfg.type_overrides /\ cfg.type_overrides[suf] THEN Pass
      ELSE IF default_match_llm[filename(f)]
        THEN IF matches_any(f, cfg.included_patterns) THEN Pass
             ELSE Fail("default_pattern")
      ELSE Pass

\* Fault variant of GitignoreRule: the rule does not look at --include
GitignoreRule_over_include(matcher, f, cfg) ==
  IF matcher = None \/ cfg.git_mode = "NONE" THEN Pass
  ELSE IF rel_path_posix(f) \in Value(matcher) THEN Fail("gitignore")
  ELSE Pass

\* GitignoreRule.passes; matcher is the rule's gitignore_matcher (Optional)
GitignoreRule(matcher, f, cfg) ==
  IF matcher = None \/ cfg.git_mode = "NONE" THEN Pass
  ELSE IF rel_path_posix(f) \in Value(matcher)
    THEN IF matches_any(f, cfg.included_patterns) THEN Pass
         ELSE Fail("gitignore")
  ELSE Pass

\* Fault variant of GitTrackingRule: the always-include names are not exempt
\* from the tracking check
GitTrackingRule_no_always_check(tracked, f, cfg) ==
  IF tracked = None \/ tracked = Some({}) \/ cfg.git_mode # "FULL" THEN Pass
  ELSE IF rel_path_posix(f) \notin Value(tracked)
    THEN IF matches_any(f, cfg.included_patterns) THEN Pass
         ELSE Fail("not_tracked")
  ELSE Pass

\* GitTrackingRule.passes; tracked is the rule's tracked_files (Optional).
\* `not self.tracked_files` is true of None and of the empty set alike.
GitTrackingRule(tracked, f, cfg) ==
  IF tracked = None \/ tracked = Some({}) \/ cfg.git_mode # "FULL" THEN Pass
  ELSE IF rel_path_posix(f) \notin Value(tracked)
    THEN IF filename(f) \in FILES_TO_ALWAYS_CHECK_llm THEN Pass
         ELSE IF matches_any(f, cfg.included_patterns) THEN Pass
         ELSE Fail("not_tracked")
  ELSE Pass

\* Fault variant of get_git_tracked_files: the exit status of git ls-files is
\* not checked, and whatever the failed command listed is the tracked set
get_git_tracked_files_llm_unchecked(r) ==
  IF r.git = "missing_binary" THEN None
  ELSE r.tracked

\* get_git_tracked_files: None when the git binary is missing
\* (FileNotFoundError), when rev-parse does not answer "true" (the root is no
\* work tree) or when git ls-files exits non-zero (CalledProcessError);
\* otherwise the set of tracked root-relative paths
get_git_tracked_files_llm(r) ==
  IF r.git = "missing_binary" THEN None
  ELSE IF r.tracked = None THEN None
  ELSE IF r.git = "nonzero_exit" THEN None
  ELSE r.tracked

\* load_gitignore_matcher: None without a parser, a .gitignore file or a parse
load_gitignore_matcher(r) == r.gitignore

\* FileFilter._initialize_rules: the rule objects in evaluation order
initialize_rules(cfg, matcher, tracked) ==
  <<[rule |-> "AlwaysSkipRule"], [rule |-> "DirectoryExcludeRule"]>>
  \o (IF matcher # None /\ cfg.git_mode \in {"GITIGNORE_ONLY", "FULL"}
      THEN <<[rule |-> "GitignoreRule", gitignore_matcher |-> matcher]>>
      ELSE <<>>)
  \o (IF tracked # None /\ cfg.git_mode = "FULL"
      THEN <<[rule |-> "GitTrackingRule", tracked_files |-> tracked]>>
      ELSE <<>>)
  \o <<[rule |-> "PatternRule"], [rule |-> "SizeRule"], [rule |-> "BinaryRule"],
       [rule |-> "DefaultPatternRule"]>>

\* main: the git data fetched for the mode, then FileFilter.__init__
FileFilter_llm(cfg, r) ==
  LET matcher == IF cfg.git_mode \in {"GITIGNORE_ONLY", "FULL"}
                 THEN load_gitignore_matcher(r) ELSE None
      tracked == IF cfg.git_mode = "FULL" THEN get_git_tracked_files_llm(r) ELSE None
  IN  [rules |-> initialize_rules(cfg, matcher, tracked)]

\* rule.passes(path, self.config), by the rule's class
passes(rule, f, cfg) ==
  CASE rule.rule = "AlwaysSkipRule" -> AlwaysSkipRule(f, cfg)
    [] rule.rule = "DirectoryExcludeRule" -> DirectoryExcludeRule(f, cfg)
    [] rule.rule = "GitignoreRule" -> GitignoreRule(rule.gitignore_matcher, f, cfg)
    [] rule.rule = "GitTrackingRule" -> GitTrackingRule(rule.tracked_files, f, cfg)
    [] rule.rule = "PatternRule" -> PatternRule(f, cfg)
    [] rule.rule = "SizeRule" -> SizeRule(f, cfg)
    [] rule.rule = "BinaryRule" -> BinaryRule(f, cfg)
    [] rule.rule = "DefaultPatternRule" -> DefaultPatternRule(f, cfg)

\* FileFilter.should_include: the first rule that fails gives the decision
RECURSIVE first_failure(_, _, _, _)
first_failure(rules, k, f, cfg) ==
  IF k > Len(rules) THEN Return(TRUE, "passed_all_filters")
  ELSE LET res == passes(rules[k], f, cfg)
       IN  IF ~res.passes THEN Return(FALSE, res.reason)
           ELSE first_failure(rules, k + 1, f, cfg)

should_include_llm(ff, cfg, f) == first_failure(ff.rules, 1, f, cfg)

-----------------------------------------------------------------------------
(* The inputs: command lines and repositories *)

\* The most patterns a run passes with --include, and with --exclude
MaxPatterns == 1

\* "*.js*" matches by file name (index.js, secrets.json, package.json);
\* "**/main.py" and "src/*" match src/main.py by its path alone, "main.*" by
\* its name alone; "**/main.py" ends with the file name n.py
IncludePatternUniverse == {"*.js*", "**/main.py"}
ExcludePatternUniverse == {"main.*", "src/*"}

AtMost(universe, n) == {S \in SUBSET universe : Cardinality(S) <= n}

GitModes == {"NONE", "GITIGNORE_ONLY", "FULL"}

\* parse_size's results: no limit, or a limit in bytes
SizeLimits == {None, Some(2048)}

\* The --include-<type> flags given on the command line
TypeFlagChoices == {{}, {"json"}}

\* Config.__init__: override_defaults from the --include-<type> flags
override_defaults(flags) ==
  [suf \in {".json", ".jsonc", ".yaml", ".yml", ".xml", ".html", ".htm", ".css",
            ".sql", ".csv", ".tsv", ".md", ".markdown", ".rst"} |->
     CASE suf \in {".json", ".jsonc"} -> "json" \in flags
       [] suf \in {".yaml", ".yml"} -> "yaml" \in flags
       [] suf = ".xml" -> "xml" \in flags
       [] suf \in {".html", ".htm"} -> "html" \in flags
       [] suf = ".css" -> "css" \in flags
       [] suf = ".sql" -> "sql" \in flags
       [] suf \in {".csv", ".tsv"} -> "csv" \in flags
       [] suf \in {".md", ".markdown", ".rst"} -> "markdown" \in flags]

\* ConfigFactory._build_type_overrides
build_type_overrides(flags, is_targeted, auto_include_markdown) ==
  LET base ==
        [suf \in {".json", ".jsonc", ".yaml", ".yml", ".xml", ".html", ".htm",
                  ".css", ".sql", ".csv", ".tsv", ".md", ".markdown", ".rst"} |->
           CASE suf \in {".json", ".jsonc"} -> "json" \in flags \/ is_targeted
             [] suf \in {".yaml", ".yml"} -> "yaml" \in flags \/ is_targeted
             [] suf = ".xml" -> "xml" \in flags
             [] suf \in {".html", ".htm"} -> "html" \in flags
             [] suf = ".css" -> "css" \in flags
             [] suf = ".sql" -> "sql" \in flags
             [] suf \in {".csv", ".tsv"} -> "csv" \in flags
             [] suf \in {".md", ".markdown", ".rst"} ->
                  "markdown" \in flags \/ auto_include_markdown \/ is_targeted]
      targeted_extensions ==
        {".txt", ".log", ".sh", ".bash", ".zsh", ".fish", ".ps1", ".bat", ".cmd",
         ".ini", ".cfg", ".conf", ".properties", ".toml", ".lock"}
  IN  IF is_targeted
      THEN [suf \in DOMAIN base \cup targeted_extensions |->
              IF suf \in targeted_extensions THEN TRUE ELSE base[suf]]
      ELSE base

\* The parsed command line (argparse.Namespace), as far as the filter reads it
Args ==
  {[git_mode |-> mode, include_binary |-> bin, max_size |-> limit,
    include_only |-> only, exclude |-> exc, include |-> inc, include_types |-> flags,
    max_depth |-> None, sort_alpha |-> FALSE] :
     mode \in GitModes, bin \in BOOLEAN, limit \in SizeLimits, only \in BOOLEAN,
     exc \in AtMost(ExcludePatternUniverse, MaxPatterns),
     inc \in AtMost(IncludePatternUniverse, MaxPatterns),
     flags \in TypeFlagChoices}

\* Config.__init__ of src/copy.py (--include-only is no option of copy.py)
Config_copy(a) ==
  [no_gitignore |-> a.git_mode = "NONE",
   gitignore_only |-> a.git_mode = "GITIGNORE_ONLY",
   include_binary |-> a.include_binary,
   max_size |-> a.max_size,
   excluded_dirs |-> DEFAULT_EXCLUDED_DIRS_copy,
   excluded_patterns |-> a.exclude,
   included_patterns |-> a.include,
   override_defaults |-> override_defaults(a.include_types)]

\* ConfigFactory.from_args of src/llmcontext.py, for a root that is the
\* working directory (not targeted) and holds no majority of Markdown files
ConfigFactory_from_args(a) ==
  [git_mode |-> a.git_mode,
   include_binary |-> a.include_binary,
   max_size_bytes |-> a.max_size,
   max_depth |-> a.max_depth,
   sort_alphabetically |-> a.sort_alpha,
   include_only_mode |-> a.include_only,
   excluded_dirs |-> DEFAULT_EXCLUDED_DIRS_llm,
   excluded_patterns |-> a.exclude,
   included_patterns |-> a.include,
   type_overrides |-> build_type_overrides(a.include_types, FALSE, FALSE)]

\* What the repository holds: the paths .gitignore matches (None without a
\* usable .gitignore) and the paths git tracks (None when git gives no data)
\* A repository: the paths its .gitignore matches (None without a usable
\* .gitignore), the paths git ls-files lists (None when the root is no work
\* tree), and the condition of the git command
GitConditions == {"ok", "missing_binary", "nonzero_exit"}

Repos ==
  {[gitignore |-> ig, tracked |-> tr, git |-> "ok"] :
     ig \in {None, Some({"scratch.txt", "secrets.json", "src/main.py"})},
     tr \in {None, Some({}), Some({"README.md"})}}

\* The repositories with every condition of the git command
ReposGit ==
  {[r EXCEPT !.git = g] : r \in Repos, g \in GitConditions}

\* The command lines that differ in the git mode and the size limit only
ArgsGit ==
  {a \in Args : /\ a.exclude = {} /\ a.include = {} /\ a.include_types = {}
                /\ ~a.include_only /\ ~a.include_binary}

-----------------------------------------------------------------------------
(* The state machine *)

\* The configuration object of the running program
config == IF program = "copy" THEN Config_copy(args) ELSE ConfigFactory_from_args(args)

Init ==
  /\ program \in {"copy", "llmcontext"}
  /\ args \in {a \in Args : program = "copy" => ~a.include_only}
  /\ repo \in Repos
  /\ file_filter = None
  /\ pc = "start"
  /\ decision = None
  /\ fs = None /\ scanner = None /\ analysis = None /\ runs = <<>>

\* copy.py main: file_filter = FileFilter(config)
BuildFilter_copy ==
  /\ program = "copy" /\ pc = "start"
  /\ file_filter' = Some(FileFilter_copy(config, repo))
  /\ pc' = "ready"
  /\ UNCHANGED <<program, args, repo, decision, fs, scanner, analysis, runs>>

\* llmcontext.py main: the git data, then FileFilter(config, matcher, tracked)
BuildFilter_llm ==
  /\ program = "llmcontext" /\ pc = "start"
  /\ file_filter' = Some(FileFilter_llm(config, repo))
  /\ pc' = "ready"
  /\ UNCHANGED <<program, args, repo, decision, fs, scanner, analysis, runs>>

\* ProjectScanner.scan of copy.py: is_included, reason = should_include(item)
ShouldInclude_copy ==
  /\ program = "copy" /\ pc = "ready"
  /\ \E f \in Files :
       decision' = Some([file |-> f] @@ should_include_copy(Value(file_filter), config, f))
  /\ pc' = "decided"
  /\ UNCHANGED <<program, args, repo, file_filter, fs, scanner, analysis, runs>>

\* ProjectScanner.scan of llmcontext.py: should_include, reason = should_include(item)
ShouldInclude_llm ==
  /\ program = "llmcontext" /\ pc = "ready"
  /\ \E f \in Files :
       decision' = Some([file |-> f] @@ should_include_llm(Value(file_filter), config, f))
  /\ pc' = "decided"
  /\ UNCHANGED <<program, args, repo, file_filter, fs, scanner, analysis, runs>>

\* The scan loop goes on to its next item, unless should_include raised:
\* neither scan catches, and main ends the run on any exception
NextItem ==
  /\ pc = "decided"
  /\ \A d \in decision : ~d.raised
  /\ pc' = "ready"
  /\ decision' = None
  /\ UNCHANGED <<program, args, repo, file_filter, fs, scanner, analysis, runs>>

Next ==
  \/ BuildFilter_copy
  \/ BuildFilter_llm
  \/ ShouldInclude_copy
  \/ ShouldInclude_llm
  \/ NextItem

Spec == Init /\ [][Next]_vars

\* The same programs in repositories where the git command may fail
InitGit ==
  /\ program \in {"copy", "llmcontext"}
  /\ args \in ArgsGit
  /\ repo \in ReposGit
  /\ file_filter = None
  /\ pc = "start"
  /\ decision = None
  /\ fs = None /\ scanner = None /\ analysis = None /\ runs = <<>>

SpecGit == InitGit /\ [][Next]_vars

-----------------------------------------------------------------------------
(* The walk: directory enumeration and the orders Python sorts by *)

\* The characters of the names of a project, in runs of consecutive code
\* points: "-" is 45, "A" is 65, "_" is 95, "a" is 97
CodeRuns ==
  << <<45, "-./0123456789">>, <<65, "ABCDEFGHIJKLMNOPQRSTUVWXYZ">>,
     <<95, "_">>, <<97, "abcdefghijklmnopqrstuvwxyz">> >>

\* ord(c)
ord ==
  [c \in UNION {{CharAt(CodeRuns[r][2], i) : i \in 1..Len(CodeRuns[r][2])} :
                  r \in 1..Len(CodeRuns)} |->
     LET r == CHOOSE q \in 1..Len(CodeRuns) :
                \E i \in 1..Len(CodeRuns[q][2]) : CharAt(CodeRuns[q][2], i) = c
         i == CHOOSE k \in 1..Len(CodeRuns[r][2]) : CharAt(CodeRuns[r][2], k) = c
     IN  CodeRuns[r][1] + i - 1]

\* A string as the sequence of its code points
codes(s) == [i \in 1..Len(s) |-> ord[CharAt(s, i)]]

\* Python's order on tuples and strings, on sequences of integers: the first
\* difference decides, a proper prefix comes first
seq_less(a, b) ==
  \E k \in 1..(Len(b)) :
    /\ k <= Len(a) + 1
    /\ \A j \in 1..(k - 1) : a[j] = b[j]
    /\ (k = Len(a) + 1 \/ a[k] < b[k])

\* sorted(items, key=...) / list.sort(key=...): keys[i] is the key of
\* items[i]; the sort is stable
sorted_by(items, keys) ==
  LET n == Len(items)
      before(j, i) == seq_less(keys[j], keys[i]) \/ (keys[j] = keys[i] /\ j < i)
      rank(i) == 1 + Cardinality({j \in 1..n : before(j, i)})
  IN  [p \in 1..n |-> items[CHOOSE i \in 1..n : rank(i) = p]]

\* os.scandir / Path.iterdir of the directory with the given parts
iterdir(tree, dir_parts) ==
  SelectSeq(tree, LAMBDA e : SubSeq(e.parts, 1, Len(e.parts) - 1) = dir_parts)

RECURSIVE rglob_from(_, _)
RECURSIVE iterate_directories(_, _, _)

\* pathlib's _RecursiveWildcardSelector: the real subdirectories (no links)
\* of a listing, each walked in turn
iterate_directories(tree, entries, k) ==
  IF k > Len(entries) THEN <<>>
  ELSE (IF entries[k].kind = "dir" /\ entries[k].access = "ok"
        THEN rglob_from(tree, entries[k].parts)
        ELSE <<>>)                       \* except PermissionError: return
         \o iterate_directories(tree, entries, k + 1)

\* Path.rglob("*") below a directory: its entries, then those below each of
\* its subdirectories
rglob_from(tree, dir_parts) ==
  LET entries == iterdir(tree, dir_parts)
  IN  entries \o iterate_directories(tree, entries, 1)

rglob_unstable(tree) ==
  IF runs = <<>> THEN rglob_from(tree, <<>>) ELSE Reverse(rglob_from(tree, <<>>))

\* config.root_dir.rglob("*")
rglob(tree) == rglob_from(tree, <<>>)

-----------------------------------------------------------------------------
(* The walk of src/copy.py: ProjectScanner and TreeBuilder *)

\* ProjectScanner.__init__ and the locals scan() starts with.  items and pos
\* are the rglob iterator; evaluated records the items handed to
\* should_include
ProjectScanner_copy(tree) ==
  [items |-> rglob(tree), pos |-> 1, evaluated |-> <<>>,
   scanned_count_local |-> 0, included_paths_temp |-> <<>>,
   included_files_data |-> <<>>, excluded_files_count |-> 0,
   total_lines |-> 0, total_chars |-> 0,
   scanned_item_count |-> 0]

\* ProjectScanner.scan: `part in excluded_dirs for part in rel_parts[:-1]`
within_excluded_dir(cfg, item) ==
  \E k \in 1..(Len(item.parts) - 1) : item.parts[k] \in cfg.excluded_dirs

\* One pass of the loop `for item in self.config.root_dir.rglob("*")`
scan_item_copy(sc, ff, cfg) ==
  LET item == sc.items[sc.pos]
      counted == [sc EXCEPT !.pos = @ + 1, !.scanned_count_local = @ + 1]
  IN  IF is_symlink(item) THEN counted
      ELSE IF within_excluded_dir(cfg, item) THEN counted
      ELSE IF is_file(item)
        THEN LET r == should_include_copy(ff, cfg, AsFile(item))
                 seen == [counted EXCEPT !.evaluated = Append(@, item)]
             IN  IF r.included
                 THEN [seen EXCEPT !.included_paths_temp = Append(@, item)]
                 ELSE [seen EXCEPT !.excluded_files_count = @ + 1]
      ELSE counted

\* The content of a file that was read, and the marker that stands for the
\* content of one that was not: f"# Error reading file: {e}"
Content == "content"
ErrorMarker == "# Error reading file"

\* percentage = chars / total_chars * 100 if total_chars > 0 else 0, as the
\* fraction num / den
percentage(chars, total_chars) ==
  IF total_chars > 0 THEN [num |-> chars * 100, den |-> total_chars]
  ELSE [num |-> 0, den |-> 1]

\* What scan() stores of one included file: its data when it was read, the
\* placeholder when reading raised
file_data_copy(item) ==
  IF item.access = "ok"
  THEN [relative_path |-> item.parts, lines |-> item.line_count,
        chars |-> item.char_count, content |-> Content, included |-> TRUE]
  ELSE [relative_path |-> item.parts, lines |-> 0, chars |-> 0,
        content |-> ErrorMarker, included |-> TRUE]

\* temp_file_data of scan(): `if path.is_file()` has no else, a path that is
\* no file any more gets no entry
temp_file_data(paths) ==
  LET present == SelectSeq(paths, LAMBDA item : item.access # "vanished")
  IN  [i \in 1..Len(present) |-> file_data_copy(present[i])]

RECURSIVE sum_of(_, _)
sum_of(seq, field) ==
  IF seq = <<>> THEN 0 ELSE seq[1][field] + sum_of(Tail(seq), field)

\* The rest of ProjectScanner.scan after the loop: the count, the sort by
\* str(relative path), the reading of the included files
finish_scan_copy(sc) ==
  LET paths == sc.included_paths_temp
      ordered == sorted_by(paths, [i \in 1..Len(paths) |-> codes(posix_join(paths[i].parts))])
      read == temp_file_data(ordered)
      total_chars == sc.total_chars + sum_of(read, "chars")
  IN  [sc EXCEPT !.scanned_item_count = sc.scanned_count_local,
                 !.included_paths_temp = ordered,
                 !.total_lines = @ + sum_of(read, "lines"),
                 !.total_chars = total_chars,
                 !.included_files_data =
                    @ \o [i \in 1..Len(read) |->
                            read[i] @@ [percentage |->
                                          percentage(read[i].chars, total_chars)]]]

\* A node of the tree of either implementation
Node(name, path, dir, inc, children) ==
  [name |-> name, path |-> path, is_directory |-> dir, included |-> inc,
   children |-> children]

any_included_all(children) == \A i \in 1..Len(children) : children[i].included

\* any(c.get('included', False) for c in children)
any_included(children) == \E i \in 1..Len(children) : children[i].included

\* TreeBuilder._is_dir_explicitly_excluded
is_dir_explicitly_excluded(cfg, relative_path) ==
  \E k \in 1..Len(relative_path) : relative_path[k] \in cfg.excluded_dirs

\* sorted(current_path.iterdir(), key=lambda p: (p.is_file(), p.name.lower()))
sorted_items(tree, current_path) ==
  LET items == SelectSeq(iterdir(tree, current_path),
                         LAMBDA e : e.access # "vanished")
  IN  sorted_by(items,
                [i \in 1..Len(items) |->
                   <<IF is_file(items[i]) THEN 1 ELSE 0>>
                     \o codes(lower(filename(items[i])))])

RECURSIVE build_tree_recursive(_, _, _, _)
RECURSIVE build_tree_nodes(_, _, _, _, _)

\* The loop `for item in sorted_items` of _build_tree_recursive, from item k on
build_tree_nodes(tree, cfg, included_files_map, items, k) ==
  IF k > Len(items) THEN <<>>
  ELSE LET item == items[k]
           rest == build_tree_nodes(tree, cfg, included_files_map, items, k + 1)
       IN  IF is_symlink(item) THEN rest
           ELSE IF is_dir(item)
             THEN IF is_dir_explicitly_excluded(cfg, item.parts)
                  THEN <<Node(filename(item), item.parts, TRUE, FALSE, <<>>)>> \o rest
                  ELSE LET children ==
                             build_tree_recursive(tree, cfg, included_files_map, item.parts)
                       IN  <<Node(filename(item), item.parts, TRUE,
                                  any_included(children), children)>> \o rest
           ELSE <<Node(filename(item), item.parts, FALSE,
                       item.parts \in included_files_map, <<>>)>> \o rest

\* The node of `except OSError`: {'name': f"[Error reading: {e}]", 'path': ...,
\* 'included': False}
ErrorName == "[Error reading]"

\* current_path.iterdir() raises for a directory that cannot be listed
iterdir_raises(tree, current_path) ==
  \E i \in 1..Len(tree) : tree[i].parts = current_path /\ tree[i].access = "denied"

\* Fault variant of _build_tree_recursive: the error of a directory's
\* listing leaves its list of nodes empty
build_tree_recursive_silent(tree, cfg, included_files_map, current_path) ==
  IF iterdir_raises(tree, current_path) THEN <<>>
  ELSE build_tree_nodes(tree, cfg, included_files_map,
                        sorted_items(tree, current_path), 1)

\* TreeBuilder._build_tree_recursive(current_path)
build_tree_recursive(tree, cfg, included_files_map, current_path) ==
  IF iterdir_raises(tree, current_path)
  THEN <<Node(ErrorName, current_path, FALSE, FALSE, <<>>)>>
  ELSE build_tree_nodes(tree, cfg, included_files_map,
                        sorted_items(tree, current_path), 1)

\* Fault variant of build_structure: the map is keyed by the file names, not
\* by the relative paths
build_structure_by_name(tree, cfg, included_files_data) ==
  build_tree_recursive(
    tree, cfg,
    {<<filename([parts |-> included_files_data[i].relative_path])>> :
       i \in 1..Len(included_files_data)},
    <<>>)

build_structure_every_file(tree, cfg, included_files_data) ==
  build_tree_recursive(
    tree, cfg, {tree[i].parts : i \in {k \in 1..Len(tree) : is_file(tree[k])}}, <<>>)

\* TreeBuilder.__init__ and build_structure: the map's keys are the relative
\* paths of the included files
build_structure(tree, cfg, included_files_data) ==
  build_tree_recursive(
    tree, cfg,
    {included_files_data[i].relative_path : i \in 1..Len(included_files_data)},
    <<>>)

\* What main has when the processing steps are over: the scan data and the
\* tree, which is built only when some file is included
run_result_copy(tree, cfg, sc) ==
  LET data == sc.included_files_data
  IN  [total_scanned |-> sc.scanned_item_count,
       total_included_lines |-> sc.total_lines,
       total_included_chars |-> sc.total_chars,
       included_files |-> data,
       tree_built |-> data # <<>>,
       tree_structure |->
         IF data = <<>> THEN <<>> ELSE build_structure(tree, cfg, data)]

-----------------------------------------------------------------------------
(* The walk of src/llmcontext.py: ProjectScanner, ContentReader and
   ProjectAnalyzer *)

\* ProjectScanner.__init__ and the local of scan().  items and pos are the
\* rglob iterator; evaluated records the items handed to should_include
ProjectScanner_llm(tree) ==
  [items |-> rglob(tree), pos |-> 1, evaluated |-> <<>>,
   scan_count |-> 0, included_paths |-> <<>>]

beyond_max_depth_inclusive(cfg, item) ==
  cfg.max_depth # None /\ Len(item.parts) >= Value(cfg.max_depth)

\* `len(rel_path.parts) > self.config.max_depth` of ProjectScanner.scan
beyond_max_depth(cfg, item) ==
  cfg.max_depth # None /\ Len(item.parts) > Value(cfg.max_depth)

scan_item_llm_counting_late(sc, ff, cfg) ==
  LET item == sc.items[sc.pos]
      skipped == [sc EXCEPT !.pos = @ + 1]
      counted == [sc EXCEPT !.pos = @ + 1, !.scan_count = @ + 1]
  IN  IF is_symlink(item) THEN skipped
      ELSE IF beyond_max_depth(cfg, item) THEN skipped
      ELSE IF is_file(item)
        THEN LET r == should_include_llm(ff, cfg, AsFile(item))
                 seen == [counted EXCEPT !.evaluated = Append(@, item)]
             IN  IF r.included
                 THEN [seen EXCEPT !.included_paths = Append(@, item)]
                 ELSE seen
      ELSE counted

\* One pass of the loop `for item in self.config.root_dir.rglob("*")`
scan_item_llm(sc, ff, cfg) ==
  LET item == sc.items[sc.pos]
      counted == [sc EXCEPT !.pos = @ + 1, !.scan_count = @ + 1]
  IN  IF is_symlink(item) THEN counted
      ELSE IF beyond_max_depth(cfg, item) THEN counted
      ELSE IF is_file(item)
        THEN LET r == should_include_llm(ff, cfg, AsFile(item))
                 seen == [counted EXCEPT !.evaluated = Append(@, item)]
             IN  IF r.included
                 THEN [seen EXCEPT !.included_paths = Append(@, item)]
                 ELSE seen
      ELSE counted

\* ContentReader.read_files: one FileResult per path, in the order given
FileResult(item) ==
  IF item.access = "ok"
  THEN [relative_path |-> item.parts, line_count |-> item.line_count,
        char_count |-> item.char_count, content |-> Content,
        keywords |-> item.keywords]
  ELSE [relative_path |-> item.parts, line_count |-> 0, char_count |-> 0,
        content |-> ErrorMarker, keywords |-> {}]

\* ContentReader.read_files: a placeholder for every path whose read raises
read_files(paths) == [i \in 1..Len(paths) |-> FileResult(paths[i])]

\* re.match(r'^\d+_', name): the number of leading digits when they are
\* followed by an underscore, 0 when the name does not match
Digits == "0123456789"

is_digit(c) == \E i \in 1..Len(Digits) : CharAt(Digits, i) = c

digit_value(c) == (CHOOSE i \in 1..Len(Digits) : CharAt(Digits, i) = c) - 1

leading_digits(name) ==
  LET ends == {k \in 0..Len(name) :
                 /\ \A i \in 1..k : is_digit(CharAt(name, i))
                 /\ (k = Len(name) \/ ~is_digit(CharAt(name, k + 1)))}
  IN  CHOOSE k \in ends : TRUE

numbered_prefix(name) ==
  LET k == leading_digits(name)
  IN  IF k >= 1 /\ k < Len(name) /\ CharAt(name, k + 1) = "_" THEN k ELSE 0

\* int(match.group(1))
RECURSIVE int_of(_, _)
int_of(name, k) ==
  IF k = 0 THEN 0 ELSE 10 * int_of(name, k - 1) + digit_value(CharAt(name, k))

\* ProjectAnalyzer._sort_alphabetically
sort_alphabetically(files) ==
  sorted_by(files,
            [i \in 1..Len(files) |-> codes(lower(filename(
               [parts |-> files[i].relative_path])))])

\* ProjectAnalyzer._sort_numerically: the key (0, number, name) or (1, 0, name)
sort_numerically(files) ==
  sorted_by(files,
            [i \in 1..Len(files) |->
               LET name == filename([parts |-> files[i].relative_path])
                   k == numbered_prefix(name)
               IN  (IF k > 0 THEN <<0, int_of(name, k)>> ELSE <<1, 0>>)
                     \o codes(lower(name))])

\* `kw in content_lower`: the keywords of a file are the search words that
\* occur in its lowercased content
content_has(file, words) == file.keywords \cap words # {}

name_score(name) ==
  IF name = "readme.md" THEN 1000
  ELSE IF name \in {"package.json", "pyproject.toml", "cargo.toml", "go.mod"} THEN 900
  ELSE IF name \in {"main.tsx", "main.ts", "main.js", "main.py", "main.go", "main.rs"} THEN 800
  ELSE IF name \in {"app.tsx", "app.ts", "app.js", "app.py", "app.go", "app.rs"} THEN 750
  ELSE IF name \in {"index.tsx", "index.ts", "index.js", "index.py"} THEN 700
  ELSE IF contains(name, "main") \/ contains(name, "app") \/ contains(name, "index") THEN 600
  ELSE 0

type_scores ==
  [e \in {".tsx", ".ts", ".jsx", ".js", ".py", ".go", ".rs", ".java", ".kt",
          ".swift", ".rb", ".php", ".c", ".cpp", ".h", ".hpp"} |->
     CASE e = ".tsx" -> 100 [] e = ".ts" -> 95 [] e = ".jsx" -> 90
       [] e = ".js" -> 85 [] e = ".py" -> 80 [] e = ".go" -> 75
       [] e = ".rs" -> 70 [] e = ".java" -> 65 [] e = ".kt" -> 60
       [] e = ".swift" -> 55 [] e = ".rb" -> 50 [] e = ".php" -> 45
       [] e = ".c" -> 40 [] e = ".cpp" -> 35 [] e = ".h" -> 30
       [] e = ".hpp" -> 25]

special_names ==
  [n \in {"dockerfile", "docker-compose.yml", "makefile", "rakefile",
          "gemfile", "requirements.txt", "setup.py", "setup.cfg"} |->
     CASE n \in {"dockerfile", "docker-compose.yml"} -> 50
       [] n \in {"requirements.txt", "setup.py"} -> 45
       [] OTHER -> 40]

\* dict.get(key, 0)
get_or_zero(d, key) == IF key \in DOMAIN d THEN d[key] ELSE 0

content_score(file, ext) ==
  IF ext \in {".tsx", ".ts", ".jsx", ".js"}
  THEN (IF content_has(file, {"react.fc", "usestate", "useeffect"}) THEN 50 ELSE 0)
       + (IF content_has(file, {"export default"}) THEN 30 ELSE 0)
       + (IF content_has(file, {"function", "class", "const"}) THEN 20 ELSE 0)
  ELSE IF ext = ".py"
  THEN (IF content_has(file, {"def main", "if __name__"}) THEN 50 ELSE 0)
       + (IF content_has(file, {"class ", "def "}) THEN 30 ELSE 0)
  ELSE 0

size_score(line_count) ==
  IF 50 <= line_count /\ line_count <= 500 THEN 20
  ELSE IF 10 <= line_count /\ line_count < 50 THEN 10
  ELSE IF line_count > 500 THEN 0 - 10
  ELSE 0

directory_score(path_parts) ==
  IF \E k \in 1..Len(path_parts) : path_parts[k] \in {"src", "lib", "app", "components"}
  THEN 25
  ELSE IF \E k \in 1..Len(path_parts) : path_parts[k] \in {"test", "tests", "__tests__"}
  THEN 0 - 50
  ELSE 0

\* ProjectAnalyzer._calculate_file_relevance_score
calculate_file_relevance_score(file) ==
  LET name == lower(filename([parts |-> file.relative_path]))
      ext == lower(suffix(filename([parts |-> file.relative_path])))
      path_parts == file.relative_path
  IN  name_score(name) + get_or_zero(type_scores, ext)
      + get_or_zero(special_names, name)
      - (Len(path_parts) - 1) * 10
      + content_score(file, ext) + size_score(file.line_count)
      + directory_score(path_parts)

\* ProjectAnalyzer._sort_by_relevance: the key (-score, name.lower())
sort_by_relevance(files) ==
  sorted_by(files,
            [i \in 1..Len(files) |->
               <<0 - calculate_file_relevance_score(files[i])>>
                 \o codes(lower(filename([parts |-> files[i].relative_path])))])

\* ProjectAnalyzer._sort_files
sort_files(files, cfg) ==
  IF cfg.sort_alphabetically THEN sort_alphabetically(files)
  ELSE LET numbered_count ==
             Cardinality({i \in 1..Len(files) :
                numbered_prefix(filename([parts |-> files[i].relative_path])) > 0})
       IN  IF 2 * numbered_count > Len(files) THEN sort_numerically(files)
           ELSE sort_by_relevance(files)

\* sorted(d.items()) of convert_dict_to_nodes: the keys of the nested
\* dictionary below current_path, in the order of str
sorted_keys(file_map, current_path) ==
  LET n == Len(current_path)
      names == {p[n + 1] : p \in {q \in file_map :
                   Len(q) > n /\ SubSeq(q, 1, n) = current_path}}
  IN  [k \in 1..Cardinality(names) |->
         CHOOSE x \in names :
           Cardinality({y \in names : seq_less(codes(y), codes(x))}) = k - 1]

RECURSIVE convert_dict_to_nodes(_, _)
RECURSIVE convert_names(_, _, _, _)

\* The loop of convert_dict_to_nodes, from the k-th key on.  bool(children_dict)
\* holds when some included file lies below the path
convert_names(file_map, current_path, names, k) ==
  IF k > Len(names) THEN <<>>
  ELSE LET path == Append(current_path, names[k])
           is_directory == \E q \in file_map :
                             Len(q) > Len(path) /\ SubSeq(q, 1, Len(path)) = path
           rest == convert_names(file_map, current_path, names, k + 1)
       IN  IF is_directory
           THEN LET children == convert_dict_to_nodes(file_map, path)
                IN  <<Node(names[k], path, TRUE, any_included(children), children)>>
                      \o rest
           ELSE <<Node(names[k], path, FALSE, path \in file_map, <<>>)>> \o rest

convert_dict_to_nodes(file_map, current_path) ==
  convert_names(file_map, current_path, sorted_keys(file_map, current_path), 1)

\* ProjectAnalyzer._build_tree: the nested dictionary holds the included
\* files and their parent directories, and nothing else
build_tree(files) ==
  convert_dict_to_nodes({files[i].relative_path : i \in 1..Len(files)}, <<>>)

\* ProjectAnalyzer.analyze, as main calls it after read_files
analyze(files, cfg, scan_count) ==
  LET total_chars == sum_of(files, "char_count")
      with_percentage ==
        [i \in 1..Len(files) |->
           files[i] @@ [percentage |-> percentage(files[i].char_count, total_chars)]]
      sorted_files == sort_files(with_percentage, cfg)
  IN  [total_scanned |-> scan_count,
       included_files |-> sorted_files,
       tree_built |-> TRUE,
       tree_structure |-> build_tree(sorted_files)]

-----------------------------------------------------------------------------
(* The state machine of a whole run: filter, walk, tree, and a second run *)

\* How many runs over the same directory and command line are compared
MaxRuns == 2

\* The --exclude patterns of the walks: none, or one that matches main.py
WalkExcludes == {{}, {"main.*"}}

\* The --max-depth values of the walks (llmcontext.py alone has the option)
WalkDepths == {None, Some(2)}

\* The command lines of the walks: no git, no size limit, no include pattern
WalkArgs(prog) ==
  {[git_mode |-> "NONE", include_binary |-> FALSE, max_size |-> None,
    include_only |-> FALSE, exclude |-> exc, include |-> {},
    include_types |-> {}, max_depth |-> depth, sort_alpha |-> alpha] :
     exc \in WalkExcludes,
     depth \in IF prog = "copy" THEN {None} ELSE WalkDepths,
     alpha \in IF prog = "copy" THEN {FALSE} ELSE BOOLEAN}

InitWalk ==
  /\ program \in {"copy", "llmcontext"}
  /\ args \in WalkArgs(program)
  /\ repo = [gitignore |-> None, tracked |-> None, git |-> "ok"]
  /\ file_filter = None
  /\ pc = "start"
  /\ decision = None
  /\ fs \in {Some(t) : t \in FileSystems}
  /\ scanner = None /\ analysis = None /\ runs = <<>>

\* copy.py main: scanner = ProjectScanner(config, file_filter), and the
\* start of scanner.scan()
StartScan_copy ==
  /\ program = "copy" /\ pc = "ready" /\ fs # None
  /\ scanner' = Some(ProjectScanner_copy(Value(fs)))
  /\ pc' = "scanning"
  /\ UNCHANGED <<program, args, repo, file_filter, decision, fs, analysis, runs>>

\* One item of the rglob loop of copy.py
ScanItem_copy ==
  /\ program = "copy" /\ pc = "scanning"
  /\ Value(scanner).pos <= Len(Value(scanner).items)
  /\ scanner' = Some(scan_item_copy(Value(scanner), Value(file_filter), config))
  /\ UNCHANGED <<program, args, repo, file_filter, pc, decision, fs, analysis, runs>>

\* The loop is over: scan() sorts and reads the included files
FinishScan_copy ==
  /\ program = "copy" /\ pc = "scanning"
  /\ Value(scanner).pos > Len(Value(scanner).items)
  /\ scanner' = Some(finish_scan_copy(Value(scanner)))
  /\ pc' = "scanned"
  /\ UNCHANGED <<program, args, repo, file_filter, decision, fs, analysis, runs>>

\* copy.py main: scan_data = scanner.get_data(), then the tree
BuildTree_copy ==
  /\ program = "copy" /\ pc = "scanned"
  /\ analysis' = Some(run_result_copy(Value(fs), config, Value(scanner)))
  /\ pc' = "done"
  /\ UNCHANGED <<program, args, repo, file_filter, decision, fs, scanner, runs>>

\* llmcontext.py main: scanner = ProjectScanner(config, file_filter), and the
\* start of scanner.scan()
StartScan_llm ==
  /\ program = "llmcontext" /\ pc = "ready" /\ fs # None
  /\ scanner' = Some(ProjectScanner_llm(Value(fs)))
  /\ pc' = "scanning"
  /\ UNCHANGED <<program, args, repo, file_filter, decision, fs, analysis, runs>>

\* One item of the rglob loop of llmcontext.py
ScanItem_llm ==
  /\ program = "llmcontext" /\ pc = "scanning"
  /\ Value(scanner).pos <= Len(Value(scanner).items)
  /\ scanner' = Some(scan_item_llm(Value(scanner), Value(file_filter), config))
  /\ UNCHANGED <<program, args, repo, file_filter, pc, decision, fs, analysis, runs>>

\* llmcontext.py main after scan(): it returns when no path is included, and
\* reads and analyzes the included files otherwise
Analyze_llm ==
  /\ program = "llmcontext" /\ pc = "scanning"
  /\ Value(scanner).pos > Len(Value(scanner).items)
  /\ LET included_paths == Value(scanner).included_paths
     IN  analysis' =
           Some(IF included_paths = <<>>
                THEN [total_scanned |-> Value(scanner).scan_count,
                      included_files |-> <<>>, tree_built |-> FALSE,
                      tree_structure |-> <<>>]
                ELSE analyze(read_files(included_paths), config,
                             Value(scanner).scan_count))
  /\ pc' = "done"
  /\ UNCHANGED <<program, args, repo, file_filter, decision, fs, scanner, runs>>

\* The process ends; the same command is started again on the same directory
\* until MaxRuns runs have finished
NextRun ==
  /\ pc = "done" /\ Len(runs) < MaxRuns
  /\ runs' = Append(runs, Value(analysis))
  /\ file_filter' = None /\ scanner' = None /\ analysis' = None
  /\ pc' = IF Len(runs) + 1 < MaxRuns THEN "start" ELSE "finished"
  /\ UNCHANGED <<program, args, repo, decision, fs>>

NextWalk ==
  \/ BuildFilter_copy
  \/ BuildFilter_llm
  \/ StartScan_copy
  \/ ScanItem_copy
  \/ FinishScan_copy
  \/ BuildTree_copy
  \/ StartScan_llm
  \/ ScanItem_llm
  \/ Analyze_llm
  \/ NextRun

SpecWalk == InitWalk /\ [][NextWalk]_vars

-----------------------------------------------------------------------------
(* scan() called again on the same ProjectScanner object *)

\* How many times scan() is called on the one scanner object
MaxScans == 2

\* ProjectScanner.get_data of copy.py, with the excluded count that scan logs
get_data(sc) ==
  [included_files |-> sc.included_files_data,
   total_included_files |-> Len(sc.included_files_data),
   total_included_lines |-> sc.total_lines,
   total_included_chars |-> sc.total_chars,
   scanned_count |-> sc.scanned_item_count,
   excluded_files_count |-> sc.excluded_files_count]

\* What a scan() of llmcontext.py leaves: the returned paths and scan_count
scan_result_llm(sc) ==
  [included_paths |-> [i \in 1..Len(sc.included_paths) |-> sc.included_paths[i].parts],
   scan_count |-> sc.scan_count]

\* The command lines of these walks: those of WalkArgs without --max-depth
\* and --sort-alpha
RescanArgs(prog) == {w \in WalkArgs(prog) : w.max_depth = None /\ ~w.sort_alpha}

InitRescan ==
  /\ program \in {"copy", "llmcontext"}
  /\ args \in RescanArgs(program)
  /\ repo = [gitignore |-> None, tracked |-> None, git |-> "ok"]
  /\ file_filter = None
  /\ pc = "start"
  /\ decision = None
  /\ fs \in {Some(t) : t \in FileSystems}
  /\ scanner = None /\ analysis = None /\ runs = <<>>

\* scan() of copy.py has returned: its data is read, and scan() is called
\* again on the same object.  The locals of scan() start afresh, the members
\* of the object are as the call before left them
ScanAgain_copy ==
  /\ program = "copy" /\ pc = "scanned" /\ Len(runs) + 1 < MaxScans
  /\ runs' = Append(runs, get_data(Value(scanner)))
  /\ scanner' = Some([Value(scanner) EXCEPT
                        !.items = rglob(Value(fs)), !.pos = 1, !.evaluated = <<>>,
                        !.scanned_count_local = 0, !.included_paths_temp = <<>>])
  /\ pc' = "scanning"
  /\ UNCHANGED <<program, args, repo, file_filter, decision, fs, analysis>>

\* The last scan() of copy.py has returned: its data is read
LastScan_copy ==
  /\ program = "copy" /\ pc = "scanned" /\ Len(runs) + 1 = MaxScans
  /\ runs' = Append(runs, get_data(Value(scanner)))
  /\ pc' = "finished"
  /\ UNCHANGED <<program, args, repo, file_filter, decision, fs, scanner, analysis>>

\* scan() of llmcontext.py has returned, and is called again on the same
\* object: included_paths is a local, scan_count a member
ScanAgain_llm ==
  /\ program = "llmcontext" /\ pc = "scanning" /\ Len(runs) + 1 < MaxScans
  /\ Value(scanner).pos > Len(Value(scanner).items)
  /\ runs' = Append(runs, scan_result_llm(Value(scanner)))
  /\ scanner' = Some([Value(scanner) EXCEPT
                        !.items = rglob(Value(fs)), !.pos = 1, !.evaluated = <<>>,
                        !.included_paths = <<>>])
  /\ UNCHANGED <<program, args, repo, file_filter, pc, decision, fs, analysis>>

\* The last scan() of llmcontext.py has returned
LastScan_llm ==
  /\ program = "llmcontext" /\ pc = "scanning" /\ Len(runs) + 1 = MaxScans
  /\ Value(scanner).pos > Len(Value(scanner).items)
  /\ runs' = Append(runs, scan_result_llm(Value(scanner)))
  /\ pc' = "finished"
  /\ UNCHANGED <<program, args, repo, file_filter, decision, fs, scanner, analysis>>

NextRescan ==
  \/ BuildFilter_copy
  \/ BuildFilter_llm
  \/ StartScan_copy
  \/ ScanItem_copy
  \/ FinishScan_copy
  \/ ScanAgain_copy
  \/ LastScan_copy
  \/ StartScan_llm
  \/ ScanItem_llm
  \/ ScanAgain_llm
  \/ LastScan_llm

SpecRescan == InitRescan /\ [][NextRescan]_vars

-----------------------------------------------------------------------------
(* The same walks over projects with unreadable directories and files *)

\* The directories that may refuse their listing, and the files whose
\* content may be unreadable or gone by the time it is read
FaultyDirs == {<<"pkg">>, <<"src", "lib">>}
FaultyFiles == {<<"README.md">>, <<"src", "main.py">>}
FileAccess == {"ok", "denied", "vanished"}

\* The whole project, with the access its entries give
FaultySystems ==
  {[i \in 1..Len(BaseEntries) |->
      LET e == BaseEntries[i]
      IN  IF e.parts \in denied THEN [e EXCEPT !.access = "denied"]
          ELSE IF e.parts \in FaultyFiles THEN [e EXCEPT !.access = access[e.parts]]
          ELSE e] :
     denied \in SUBSET FaultyDirs, access \in [FaultyFiles -> FileAccess]}

\* The command lines of these walks: those of WalkArgs, with and without
\* --include-binary (which leaves out the binary check, the one step of the
\* filter that opens the file)
FaultArgs(prog) ==
  {[a EXCEPT !.include_binary = bin] :
     a \in {w \in WalkArgs(prog) : w.max_depth = None /\ ~w.sort_alpha},
     bin \in BOOLEAN}

InitFault ==
  /\ program \in {"copy", "llmcontext"}
  /\ args \in FaultArgs(program)
  /\ repo = [gitignore |-> None, tracked |-> None, git |-> "ok"]
  /\ file_filter = None
  /\ pc = "start"
  /\ decision = None
  /\ fs \in {Some(t) : t \in FaultySystems}
  /\ scanner = None /\ analysis = None /\ runs = <<>>

SpecFault == InitFault /\ [][NextWalk]_vars

-----------------------------------------------------------------------------
(* The vocabulary of the properties, read off the running program's state *)

IsCopy == program = "copy"

GitModeOf == IF IsCopy
             THEN (IF config.no_gitignore THEN "NONE"
                   ELSE IF config.gitignore_only THEN "GITIGNORE_ONLY" ELSE "FULL")
             ELSE config.git_mode
MaxSizeBytes == IF IsCopy THEN config.max_size ELSE config.max_size_bytes
AlwaysSkipNames == IF IsCopy THEN SKIP_ALWAYS ELSE FILES_TO_ALWAYS_SKIP
AlwaysIncludeNames == IF IsCopy THEN FILES_TO_ALWAYS_CHECK_copy ELSE FILES_TO_ALWAYS_CHECK_llm
BuiltinDenylist == IF IsCopy THEN DEFAULT_EXCLUDED_PATTERNS_copy ELSE DEFAULT_EXCLUDED_PATTERNS_llm
TypeOverrides == IF IsCopy THEN config.override_defaults ELSE config.type_overrides

MatchesInclude(f) ==
  \E p \in config.included_patterns : fnmatch(filename(f), p) \/ fnmatch(rel_path_posix(f), p)
NameMatchesExclude(f) == \E p \in config.excluded_patterns : fnmatch(filename(f), p)
PathMatchesExclude(f) == \E p \in config.excluded_patterns : fnmatch(rel_path_posix(f), p)
UnderExcludedDir(f) ==
  \E k \in 1..(Len(f.parts) - 1) : f.parts[k] \in config.excluded_dirs
TooLarge(f) == \E limit \in MaxSizeBytes : f.size > limit
NulSniffed(f) == \E off \in f.nul : off < SniffLen
Gitignored(f) ==
  /\ GitModeOf \in {"GITIGNORE_ONLY", "FULL"}
  /\ \E ignored \in repo.gitignore : rel_path_posix(f) \in ignored
Untracked(f) ==
  /\ GitModeOf = "FULL"
  /\ repo.git = "ok"
  /\ \E tracked \in repo.tracked : rel_path_posix(f) \notin tracked

SizeReasons == {"max_size", "cli_include_max_size"}
BinaryReasons == {"binary", "cli_include_binary", "cannot_read"}

\* The decision the running program takes on file f for command line a in
\* repository r
DecisionFor(a, r, f) ==
  IF IsCopy
  THEN should_include_copy(FileFilter_copy(Config_copy(a), r), Config_copy(a), f)
  ELSE should_include_llm(FileFilter_llm(ConfigFactory_from_args(a), r),
                          ConfigFactory_from_args(a), f)

Outcome(d) == [included |-> d.included, reason |-> d.reason, raised |-> d.raised]

-----------------------------------------------------------------------------
(* Properties *)

\* C1: in both implementations a file whose bare name is in the always-skip
\* set is never included, whatever the include and exclude patterns, the type
\* overrides, the git mode, the size limit and the include-binary flag are.
C1_AlwaysSkipNeverIncluded ==
  \A d \in decision : filename(d.file) \in AlwaysSkipNames => ~d.included

\* C1 witness: an always-skipped file that matches an include pattern has been
\* decided (package.json against "*.js*").
C1_Witness ==
  \E d \in decision :
    /\ filename(d.file) \in AlwaysSkipNames
    /\ MatchesInclude(d.file)
    /\ ~d.raised /\ ~d.included

\* C2: a file with any ancestor directory, not only its parent, named in
\* excluded_dirs is never included, even when it matches an include pattern or
\* its name is in the always-include set.
C2_ExcludedDirNeverIncluded ==
  \A d \in decision : UnderExcludedDir(d.file) => ~d.included

\* C2 witness: a decided file matching an include pattern whose parent is not
\* excluded but whose grandparent is (node_modules/pkg/index.js).
C2_Witness ==
  \E d \in decision :
    /\ Len(d.file.parts) = 3
    /\ d.file.parts[1] \in config.excluded_dirs
    /\ d.file.parts[2] \notin config.excluded_dirs
    /\ MatchesInclude(d.file)
    /\ ~d.raised /\ ~d.included

\* C3 (as claimed): a file that matches an include pattern and hits no hard
\* veto (always-skip name, excluded ancestor, size above the limit, detected
\* binary or unreadable while include_binary is off), and whose size can be
\* read, is included, even when it matches an exclude pattern, is gitignored,
\* is untracked or matches the built-in denylist.
C3_ExplicitIncludeOutranks ==
  \A d \in decision :
    ( /\ MatchesInclude(d.file)
      /\ filename(d.file) \notin AlwaysSkipNames
      /\ ~UnderExcludedDir(d.file)
      /\ d.file.stat_ok /\ ~TooLarge(d.file)
      /\ (config.include_binary \/ (d.file.readable /\ ~NulSniffed(d.file))) )
    => d.included

\* C4: with a size limit set, a file larger than the limit is never included,
\* also when it matches an include pattern or is in the always-include set; a
\* file whose size equals the limit is not excluded by the size rule.
C4_SizeLimit ==
  \A d \in decision :
    /\ TooLarge(d.file) => ~d.included
    /\ (\E limit \in MaxSizeBytes : d.file.size = limit) => d.reason \notin SizeReasons

\* C4 witness: a file above the limit that matches an include pattern was
\* excluded for its size.
C4_Witness ==
  \E d \in decision :
    /\ TooLarge(d.file) /\ MatchesInclude(d.file)
    /\ d.reason \in SizeReasons /\ ~d.included

\* C5: with include_binary off, a file with a NUL byte among its sniffed
\* leading bytes, and a file that cannot be read for sniffing, is never
\* included, include-pattern matches and always-include names alike; with
\* include_binary on the binary rule excludes nothing.
C5_BinaryRule ==
  \A d \in decision :
    /\ (~config.include_binary /\ (NulSniffed(d.file) \/ ~d.file.readable)) => ~d.included
    /\ config.include_binary => d.reason \notin BinaryReasons

\* C5 witness: an unreadable always-include file was excluded by the binary
\* rule.
C5_Witness ==
  \E d \in decision :
    /\ ~config.include_binary /\ ~d.file.readable
    /\ filename(d.file) \in AlwaysIncludeNames
    /\ d.reason \in BinaryReasons /\ ~d.included

\* C6: a file that matches no include pattern is never included when its bare
\* name matches an exclude pattern, and never when its root-relative path
\* does: either match alone is enough.
C6_ExcludePatterns ==
  \A d \in decision :
    ~MatchesInclude(d.file) =>
      /\ NameMatchesExclude(d.file) => ~d.included
      /\ PathMatchesExclude(d.file) => ~d.included

\* C6 witness: a decided file whose path matches an exclude pattern while its
\* bare name matches none (src/main.py against "src/*"), excluded by the
\* exclude patterns.
C6_Witness ==
  \E d \in decision :
    /\ ~MatchesInclude(d.file)
    /\ PathMatchesExclude(d.file) /\ ~NameMatchesExclude(d.file)
    /\ d.reason = "exclude_pattern" /\ ~d.included

\* C7: in the modes GITIGNORE_ONLY and FULL with an ignore predicate at hand,
\* a file the predicate matches is never included unless it matches an
\* include pattern, and a file that matches an include pattern is never
\* excluded on the grounds of .gitignore.
C7_Gitignore ==
  \A d \in decision :
    Gitignored(d.file) =>
      /\ ~MatchesInclude(d.file) => ~d.included
      /\ MatchesInclude(d.file) => d.reason # "gitignore"

\* C7 witness: a gitignored file that matches an include pattern was included
\* (secrets.json against "*.js*").
C7_Witness ==
  \E d \in decision :
    Gitignored(d.file) /\ MatchesInclude(d.file) /\ d.included

\* C8 (as claimed): in mode FULL with a tracked set at hand, whatever set it
\* is, a file whose path is not in the set is never included unless its name
\* is in the always-include set or it matches an include pattern.
C8_UntrackedExcluded ==
  \A d \in decision :
    ( /\ Untracked(d.file)
      /\ filename(d.file) \notin AlwaysIncludeNames
      /\ ~MatchesInclude(d.file) )
    => ~d.included

\* The repository that gives no git data at all
NoGitData == [gitignore |-> None, tracked |-> None, git |-> "ok"]

\* C9: a git step without an applicable mode or without data excludes
\* nothing.  In mode NONE the decision is the same in every repository (in
\* each it is the decision taken where there is no git data at all); in mode
\* GITIGNORE_ONLY it is the same for every tracked set (in each it is the
\* decision taken without a tracked set); in mode FULL without a tracked set
\* it is the decision of mode GITIGNORE_ONLY.
C9_GitStepsSkipped ==
  \A d \in decision :
    /\ GitModeOf = "NONE" =>
         DecisionFor(args, NoGitData, d.file) = Outcome(d)
    /\ GitModeOf = "GITIGNORE_ONLY" =>
         DecisionFor(args, [repo EXCEPT !.tracked = None], d.file) = Outcome(d)
    /\ (GitModeOf = "FULL" /\ repo.tracked = None) =>
         DecisionFor([args EXCEPT !.git_mode = "GITIGNORE_ONLY"], repo, d.file) = Outcome(d)

\* C9 witness: in mode NONE a file was included that the repository's
\* .gitignore matches and that git does not track.
C9_Witness ==
  \E d \in decision :
    /\ GitModeOf = "NONE"
    /\ \E ignored \in repo.gitignore : rel_path_posix(d.file) \in ignored
    /\ \E tracked \in repo.tracked : rel_path_posix(d.file) \notin tracked
    /\ d.included

\* The rules before the default denylist all pass file f: not always-skipped,
\* under no excluded directory, no exclude-pattern match (nor, in
\* llmcontext.py, the include-only test or an ancestor matching an exclude
\* pattern), not gitignored, tracked or tracking not applied, within the size
\* limit, not binary.
PassesEarlierRules(f) ==
  /\ filename(f) \notin AlwaysSkipNames
  /\ ~UnderExcludedDir(f)
  /\ ~NameMatchesExclude(f) /\ ~PathMatchesExclude(f)
  /\ IsCopy \/ \A k \in 1..(Len(f.parts) - 1) :
                 \A p \in config.excluded_patterns : ~fnmatch(f.parts[k], p)
  /\ IsCopy \/ ~config.include_only_mode \/ config.included_patterns = {}
  /\ ~Gitignored(f)
  /\ ~Untracked(f)
  /\ MaxSizeBytes = None \/ (f.stat_ok /\ ~TooLarge(f))
  /\ config.include_binary \/ (f.readable /\ ~NulSniffed(f))

\* C10 (as claimed): among the files that pass every earlier rule, match no
\* include pattern and are not in the always-include set, a file whose bare
\* name matches a built-in denylist glob, with or without an extension, is
\* included if and only if the type overrides map its lowercase extension to
\* true.
C10_DenylistUnlessOverride ==
  \A d \in decision :
    ( /\ PassesEarlierRules(d.file)
      /\ ~MatchesInclude(d.file)
      /\ filename(d.file) \notin AlwaysIncludeNames
      /\ \E p \in BuiltinDenylist : fnmatch(filename(d.file), p) )
    => ( d.included <=>
           LET suf == lower(suffix(filename(d.file)))
           IN  suf \in DOMAIN TypeOverrides /\ TypeOverrides[suf] )

NoTypeOverride == \A suf \in DOMAIN TypeOverrides : ~TypeOverrides[suf]
MarkupExtensions == {".json", ".yaml", ".xml", ".html", ".css", ".sql", ".csv", ".md", ".rst"}

\* C11 (as claimed): with no type override set and no include patterns, a
\* file that passes the rules before the denylist, is not in the
\* always-include set and has one of the extensions .json, .yaml, .xml, .html,
\* .css, .sql, .csv, .md, .rst is excluded by the built-in denylist.
C11_MarkupDenylisted ==
  \A d \in decision :
    ( /\ NoTypeOverride
      /\ config.included_patterns = {}
      /\ PassesEarlierRules(d.file)
      /\ filename(d.file) \notin AlwaysIncludeNames
      /\ lower(suffix(filename(d.file))) \in MarkupExtensions )
    => ~d.included

\* llmcontext.py --include-only with at least one include pattern: PatternRule
\* then admits only the files its include-only test lets through
IncludeOnlyApplies ==
  ~IsCopy /\ config.include_only_mode /\ config.included_patterns # {}

\* In llmcontext.py an exclude pattern is also matched against the names of
\* the ancestor directories
AncestorMatchesExclude(f) ==
  /\ ~IsCopy
  /\ \E k \in 1..(Len(f.parts) - 1) :
       \E p \in config.excluded_patterns : fnmatch(f.parts[k], p)

\* What C12 asks of an always-include file: not always-skipped, under no
\* excluded directory, no exclude-pattern match, not gitignored, within the
\* size limit, not binary
AlwaysIncludeCase(f) ==
  /\ filename(f) \in AlwaysIncludeNames
  /\ filename(f) \notin AlwaysSkipNames
  /\ ~UnderExcludedDir(f)
  /\ ~NameMatchesExclude(f) /\ ~PathMatchesExclude(f)
  /\ ~Gitignored(f)
  /\ MaxSizeBytes = None \/ (f.stat_ok /\ ~TooLarge(f))
  /\ config.include_binary \/ (f.readable /\ ~NulSniffed(f))

\* C12 (as claimed): an always-include file that is not always-skipped, not
\* under an excluded directory, matches no exclude pattern, is not
\* gitignored, is within the size limit and is not binary is included, also
\* when git does not track it in mode FULL and when its name matches a
\* built-in denylist glob without a type override.
C12_AlwaysIncludeIncluded_Original ==
  \A d \in decision : AlwaysIncludeCase(d.file) => d.included

\* C12 (amended): the same, outside llmcontext.py's include-only mode and for
\* a file none of whose ancestor directory names matches an exclude pattern
\* in llmcontext.py.
C12_AlwaysIncludeIncluded ==
  \A d \in decision :
    ( /\ AlwaysIncludeCase(d.file)
      /\ ~IncludeOnlyApplies
      /\ ~AncestorMatchesExclude(d.file) )
    => d.included

\* C12 witness: an always-include file that git does not track in mode FULL
\* and whose name matches a built-in denylist glob without a type override
\* was included (docker-compose.yaml against "*.yaml").
C12_Witness ==
  \E d \in decision :
    /\ AlwaysIncludeCase(d.file) /\ ~IncludeOnlyApplies
    /\ Untracked(d.file) /\ repo.tracked # Some({})
    /\ \E p \in BuiltinDenylist : fnmatch(filename(d.file), p)
    /\ NoTypeOverride
    /\ d.included

-----------------------------------------------------------------------------
(* The vocabulary of the walk's properties *)

\* The nodes of a tree, at every depth
RECURSIVE TreeNodes(_)
TreeNodes(children) ==
  UNION {{children[i]} \cup TreeNodes(children[i].children) :
           i \in 1..Len(children)}

\* The tree a finished run has built, and whether it built one
TreeBuilt == analysis # None /\ Value(analysis).tree_built
Tree == Value(analysis).tree_structure

\* The directory names excluded by name
ExcludedDirNames == config.excluded_dirs

\* The root-relative paths the walker has put in its included set
WalkerIncluded ==
  LET paths == IF IsCopy THEN Value(scanner).included_paths_temp
               ELSE Value(scanner).included_paths
  IN  {paths[i].parts : i \in 1..Len(paths)}

\* The entries of the filesystem with the given root-relative path
EntryAt(path) == {Value(fs)[i] : i \in {k \in 1..Len(Value(fs)) : Value(fs)[k].parts = path}}

\* C13: in the tree of a finished run, a directory node whose name is an
\* excluded directory name has included = FALSE and so has every node below
\* it; every other directory node has included = TRUE exactly when one of its
\* children has (FALSE when it has no children).
C13_TreeInvariant ==
  TreeBuilt =>
    \A d \in TreeNodes(Tree) :
      d.is_directory =>
        IF d.name \in ExcludedDirNames
        THEN ~d.included /\ \A n \in TreeNodes(d.children) : ~n.included
        ELSE d.included = (\E i \in 1..Len(d.children) : d.children[i].included)

\* C13 witness: a tree of copy.py with the excluded directory node_modules,
\* the directory src with an included child, a directory with children of
\* which none is included, and a directory without children.
C13_Witness ==
  /\ TreeBuilt /\ IsCopy
  /\ \E d \in TreeNodes(Tree) : d.is_directory /\ d.name \in ExcludedDirNames /\ ~d.included
  /\ \E d \in TreeNodes(Tree) :
       d.is_directory /\ d.name \notin ExcludedDirNames /\ d.included /\ d.children # <<>>
  /\ \E d \in TreeNodes(Tree) :
       d.is_directory /\ d.name \notin ExcludedDirNames /\ ~d.included /\ d.children # <<>>
  /\ \E d \in TreeNodes(Tree) :
       d.is_directory /\ d.name \notin ExcludedDirNames /\ ~d.included /\ d.children = <<>>

\* Whether the path a is the path b or one of its ancestors
IsPrefix(a, b) == Len(a) <= Len(b) /\ SubSeq(b, 1, Len(a)) = a

\* An entry that lies beneath a symbolic link to a directory
UnderSymlink(e) ==
  \E k \in 1..(Len(e.parts) - 1) :
    \E l \in EntryAt(SubSeq(e.parts, 1, k)) : l.kind = "symlink"

\* The entries under the root that are no symbolic links and lie beneath none
RealEntries ==
  {Value(fs)[i] : i \in {k \in 1..Len(Value(fs)) :
     Value(fs)[k].kind # "symlink" /\ ~UnderSymlink(Value(fs)[k])}}

\* C14 (as claimed): the tree of a finished run has a node for every entry
\* under the root that is no symbolic link: also for every excluded file,
\* every directory without included files and every entry beneath a
\* name-excluded directory, each with included = FALSE.
C14_CompleteTree ==
  TreeBuilt =>
    \A e \in RealEntries :
      \E n \in TreeNodes(Tree) :
        /\ n.path = e.parts
        /\ (\A p \in WalkerIncluded : ~IsPrefix(e.parts, p)) => ~n.included

\* C15: in the tree of a finished run, a file node has included = TRUE
\* exactly when its root-relative path is in the included set the walker
\* computed: the tree never marks included a file the walker excluded.
C15_FileNodesFollowWalker ==
  TreeBuilt =>
    \A n \in TreeNodes(Tree) :
      ~n.is_directory => (n.included <=> n.path \in WalkerIncluded)

\* C15 witness: a tree with the node of a file the walker included and the
\* node of a file the walker handed to should_include and excluded.
C15_Witness ==
  /\ TreeBuilt
  /\ \E n \in TreeNodes(Tree) :
       ~n.is_directory /\ n.included /\ n.path \in WalkerIncluded
  /\ \E n \in TreeNodes(Tree) :
       /\ ~n.is_directory /\ ~n.included /\ n.path \notin WalkerIncluded
       /\ \E i \in 1..Len(Value(scanner).evaluated) :
            Value(scanner).evaluated[i].parts = n.path

C17_ScannedCount ==
  analysis # None =>
    /\ Value(analysis).total_scanned
         = Cardinality({k \in 1..Len(Value(fs)) : ~UnderSymlink(Value(fs)[k])})
    /\ Len(Value(analysis).included_files) <= Value(analysis).total_scanned

\* C17 witness: a finished run of llmcontext.py --max-depth 2 over a directory
\* with a symbolic link, an excluded file and a file at depth 3, which counted
\* them all and included fewer files than it counted.
C17_Witness ==
  /\ analysis # None /\ ~IsCopy /\ args.max_depth = Some(2)
  /\ \E k \in 1..Len(Value(fs)) : Value(fs)[k].kind = "symlink"
  /\ \E k \in 1..Len(Value(fs)) :
       Len(Value(fs)[k].parts) = 3 /\ ~UnderSymlink(Value(fs)[k])
  /\ \E k \in 1..Len(Value(scanner).evaluated) :
       Value(scanner).evaluated[k].parts \notin WalkerIncluded
  /\ Value(analysis).total_scanned > Len(Value(analysis).included_files)
  /\ Value(analysis).included_files # <<>>

\* The root-relative paths of the symbolic links under the root
SymlinkPaths ==
  {Value(fs)[k].parts : k \in {i \in 1..Len(Value(fs)) : Value(fs)[i].kind = "symlink"}}

\* A path that is a symbolic link or leads through one
ThroughSymlink(path) == \E k \in 1..Len(path) : SubSeq(path, 1, k) \in SymlinkPaths

\* C18: no symbolic link, and nothing reached through one, is ever handed to
\* should_include or put in the included set, and the tree of a finished run
\* has no node for a symbolic link nor for anything behind one.
C18_SymlinksSkipped ==
  /\ scanner # None =>
       /\ \A k \in 1..Len(Value(scanner).evaluated) :
            ~ThroughSymlink(Value(scanner).evaluated[k].parts)
       /\ \A p \in WalkerIncluded : ~ThroughSymlink(p)
  /\ TreeBuilt => \A n \in TreeNodes(Tree) : ~ThroughSymlink(n.path)

\* C18 witness: a finished run over a directory with a link to a file, a
\* link to a directory and a file behind that link, which has handed files
\* to should_include and built a tree.
C18_Witness ==
  /\ TreeBuilt
  /\ <<"link.py">> \in SymlinkPaths /\ <<"srclink">> \in SymlinkPaths
  /\ \E k \in 1..Len(Value(fs)) : Value(fs)[k].parts = <<"srclink", "in.py">>
  /\ Value(scanner).evaluated # <<>>
  /\ Value(scanner).pos > Len(Value(scanner).items)

\* C19: with --max-depth m (llmcontext.py), no entry with more than m path
\* segments is handed to should_include, so no included file has more than m
\* segments; once the scan is over every regular file with at most m
\* segments, those with exactly m among them, has been handed to it.
C19_MaxDepth ==
  (~IsCopy /\ config.max_depth # None /\ scanner # None) =>
    LET m == Value(config.max_depth)
        sc == Value(scanner)
    IN  /\ \A k \in 1..Len(sc.evaluated) : Len(sc.evaluated[k].parts) <= m
        /\ \A p \in WalkerIncluded : Len(p) <= m
        /\ sc.pos > Len(sc.items) =>
             \A i \in 1..Len(sc.items) :
               (sc.items[i].kind = "file" /\ Len(sc.items[i].parts) <= m)
                 => \E k \in 1..Len(sc.evaluated) : sc.evaluated[k] = sc.items[i]

\* C19 witness: a finished scan with --max-depth 2 over a directory that
\* holds src/lib/util.py, which was skipped, and src/main.py, which has
\* exactly two segments and was included.
C19_Witness ==
  /\ ~IsCopy /\ config.max_depth = Some(2) /\ scanner # None
  /\ Value(scanner).pos > Len(Value(scanner).items)
  /\ \E i \in 1..Len(Value(scanner).items) :
       Value(scanner).items[i].parts = <<"src", "lib", "util.py">>
  /\ <<"src", "main.py">> \in WalkerIncluded

\* C30: in llmcontext.py a file is excluded whenever the name of one of its
\* ancestor directories glob-matches an exclude pattern, also when neither
\* its bare name nor its root-relative path matches an exclude pattern and
\* when the file matches an include pattern.
C30_AncestorNameExcluded ==
  \A d \in decision : AncestorMatchesExclude(d.file) => ~d.included

\* C30 witness: lib/main.d/x.json with --exclude 'main.*' --include '*.js*':
\* only the ancestor name main.d matches the exclude pattern, the file matches
\* the include pattern, and DirectoryExcludeRule excluded it.
C30_Witness ==
  \E d \in decision :
    /\ AncestorMatchesExclude(d.file)
    /\ ~NameMatchesExclude(d.file) /\ ~PathMatchesExclude(d.file)
    /\ ~UnderExcludedDir(d.file)
    /\ MatchesInclude(d.file)
    /\ ~d.included /\ d.reason = "dir_matches_exclude_pattern"

\* Whether file f fails the k-th rule of the claimed order: 1 always-skip,
\* 2 directory exclusion, 3 explicit exclude patterns, 4 gitignore, 5 git
\* tracking, 6 size, 7 binary
RuleFails(k, f) ==
  CASE k = 1 -> filename(f) \in AlwaysSkipNames
    [] k = 2 -> UnderExcludedDir(f) \/ AncestorMatchesExclude(f)
    [] k = 3 -> NameMatchesExclude(f) \/ PathMatchesExclude(f)
    [] k = 4 -> Gitignored(f)
    [] k = 5 -> Untracked(f) /\ filename(f) \notin AlwaysIncludeNames
    [] k = 6 -> MaxSizeBytes # None /\ (~f.stat_ok \/ TooLarge(f))
    [] k = 7 -> ~config.include_binary /\ (NulSniffed(f) \/ ~f.readable)

\* The reasons with which the k-th rule excludes a file
RuleReasons(k) ==
  CASE k = 1 -> {"always_skip"}
    [] k = 2 -> {"excluded_dir", "dir_matches_exclude_pattern"}
    [] k = 3 -> {"exclude_pattern"}
    [] k = 4 -> {"gitignore"}
    [] k = 5 -> {"not_tracked"}
    [] k = 6 -> {"max_size", "cannot_stat"}
    [] k = 7 -> {"binary", "cannot_read"}

\* C26 (as claimed): for a file that matches no include pattern (outside
\* include-only mode) the rules are evaluated in the order always-skip,
\* directory exclusion, exclude patterns, gitignore, git tracking, size,
\* binary, and the first that fails gives the reason: a file that fails
\* several rules is reported with the reason of the earliest of them.
C26_RuleOrder ==
  \A d \in decision :
    (~MatchesInclude(d.file) /\ ~IncludeOnlyApplies /\ ~d.raised) =>
      \A k \in 1..7 :
        (RuleFails(k, d.file) /\ \A j \in 1..(k - 1) : ~RuleFails(j, d.file))
          => d.reason \in RuleReasons(k)

-----------------------------------------------------------------------------
(* Git is unavailable *)

\* The git command gives no tracked set: the binary is missing, the root is
\* no work tree, or git ls-files exits non-zero
GitUnavailable == repo.git # "ok" \/ repo.tracked = None

\* C24: when git is unavailable in mode FULL, the filter holds no tracked
\* set, the run goes on to decide files, no file is excluded for not being
\* tracked, and every decision is the one taken with the tracking step
\* switched off (mode GITIGNORE_ONLY).
C24_GitUnavailable ==
  (GitModeOf = "FULL" /\ GitUnavailable) =>
    /\ pc # "start" => file_filter # None
    /\ \A d \in decision :
         /\ d.reason # "not_tracked"
         /\ DecisionFor([args EXCEPT !.git_mode = "GITIGNORE_ONLY"], repo, d.file)
              = Outcome(d)

\* C24 witness: git ls-files failed in a repository that tracks README.md
\* only, and src/main.py was included all the same.
C24_Witness ==
  \E d \in decision :
    /\ GitModeOf = "FULL" /\ repo.git = "nonzero_exit"
    /\ repo.tracked = Some({"README.md"})
    /\ rel_path_posix(d.file) = "src/main.py" /\ d.file.stat_ok /\ d.included

-----------------------------------------------------------------------------
(* A stat failure at the size check *)

\* C22: with a size limit, a file whose stat fails is decided as excluded and
\* the decision does not end the run, whether or not the file matches an
\* include pattern.
C22_StatFailureNotFatal ==
  \A d \in decision :
    (MaxSizeBytes # None /\ ~d.file.stat_ok) => (~d.raised /\ ~d.included)

-----------------------------------------------------------------------------
(* The size parser: --max-size of both programs *)

\* str.strip(): the string without its leading and trailing blanks
RECURSIVE strip(_)
strip(s) ==
  IF Len(s) = 0 THEN ""
  ELSE IF CharAt(s, 1) = " " THEN strip(SubSeq(s, 2, Len(s)))
  ELSE IF CharAt(s, Len(s)) = " " THEN strip(SubSeq(s, 1, Len(s) - 1))
  ELSE s

\* str.isdigit(): not empty, and every character a digit
isdigit(s) == Len(s) > 0 /\ \A i \in 1..Len(s) : is_digit(CharAt(s, i))

\* int(s): blanks around the literal are dropped, one sign is allowed, the
\* rest must be digits; anything else is a ValueError
int(s) ==
  LET t == strip(s)
      signed == Len(t) > 0 /\ CharAt(t, 1) \in {"+", "-"}
      body == IF signed THEN SubSeq(t, 2, Len(t)) ELSE t
      magnitude == int_of(body, Len(body))
  IN  IF ~isdigit(body) THEN [ok |-> FALSE, value |-> 0]
      ELSE [ok |-> TRUE,
            value |-> IF signed /\ CharAt(t, 1) = "-" THEN 0 - magnitude ELSE magnitude]

\* A byte count is an unbounded integer in the programs.  It is kept here as
\* the pair of its quotient and remainder by 2^20 (floor division, so every
\* integer has one pair): the number n * 1024^e for e in 0..3
MiB == 1024 * 1024

times_1024_to(n, e) ==
  CASE e = 0 -> [mib |-> n \div MiB, rest |-> n % MiB]
    [] e = 1 -> [mib |-> (n * 1024) \div MiB, rest |-> (n * 1024) % MiB]
    [] e = 2 -> [mib |-> n, rest |-> 0]
    [] e = 3 -> [mib |-> n * 1024, rest |-> 0]

\* val > 0
positive(val) == val.mib > 0 \/ (val.mib = 0 /\ val.rest > 0)

\* int(size_str[:-1]) * 1024**e
scaled(s, e) ==
  LET n == int(SubSeq(s, 1, Len(s) - 1))
  IN  [ok |-> n.ok, value |-> times_1024_to(n.value, e)]

\* The try block of both parsers: the byte count of a suffixed or plain
\* number, or a ValueError
size_value(size_str) ==
  IF endswith(size_str, "g") THEN scaled(size_str, 3)
  ELSE IF endswith(size_str, "m") THEN scaled(size_str, 2)
  ELSE IF endswith(size_str, "k") THEN scaled(size_str, 1)
  ELSE IF isdigit(size_str)
    THEN [ok |-> TRUE, value |-> times_1024_to(int(size_str).value, 0)]
  ELSE [ok |-> FALSE, value |-> times_1024_to(0, 0)]

\* parse_size of src/copy.py: None for '', '0', an invalid string and a value
\* that is not positive
parse_size(arg) ==
  LET size_str == strip(lower(arg))
      val == size_value(size_str)
  IN  IF size_str = "" \/ size_str = "0" THEN None
      ELSE IF ~val.ok THEN None
      ELSE IF positive(val.value) THEN Some(val.value) ELSE None

\* ConfigFactory._parse_size of src/llmcontext.py: None for '', '0' and an
\* invalid string; every parsed value is returned
ConfigFactory_parse_size(arg) ==
  LET size_str == strip(lower(arg))
      val == size_value(size_str)
  IN  IF size_str = "" \/ size_str = "0" THEN None
      ELSE IF ~val.ok THEN None
      ELSE Some(val.value)

\* The --max-size strings: every string of at most MaxSizeLen characters of
\* SizeChars (digits, the three units in either case, signs, a blank, and a
\* letter that is no unit)
MaxSizeLen == 3

SizeChars == {"0", "1", "2", "k", "M", "g", "-", "+", " ", "x"}

RECURSIVE StringsUpTo(_)
StringsUpTo(n) ==
  IF n = 0 THEN {""}
  ELSE {""} \cup {c \o s : c \in SizeChars, s \in {t \in StringsUpTo(n - 1) : Len(t) = n - 1}}
                \cup StringsUpTo(n - 1)

SizeStrings == StringsUpTo(MaxSizeLen)

\* The command line holds the --max-size string as argparse gives it
InitSize ==
  /\ program \in {"copy", "llmcontext"}
  /\ args \in {[max_size |-> s] : s \in SizeStrings}
  /\ repo = NoGitData
  /\ file_filter = None
  /\ pc = "argv"
  /\ decision = None
  /\ fs = None /\ scanner = None /\ analysis = None /\ runs = <<>>

\* Config.__init__ of copy.py: self.max_size = parse_size(args.max_size)
ParseSize_copy ==
  /\ program = "copy" /\ pc = "argv"
  /\ args' = [max_size |-> args.max_size, max_size_bytes |-> parse_size(args.max_size)]
  /\ pc' = "parsed"
  /\ UNCHANGED <<program, repo, file_filter, decision, fs, scanner, analysis, runs>>

\* ConfigFactory.from_args of llmcontext.py: max_size = _parse_size(args.max_size)
ParseSize_llm ==
  /\ program = "llmcontext" /\ pc = "argv"
  /\ args' = [max_size |-> args.max_size,
              max_size_bytes |-> ConfigFactory_parse_size(args.max_size)]
  /\ pc' = "parsed"
  /\ UNCHANGED <<program, repo, file_filter, decision, fs, scanner, analysis, runs>>

NextSize ==
  \/ ParseSize_copy
  \/ ParseSize_llm

SpecSize == InitSize /\ [][NextSize]_vars

\* The decimal literal of a natural number
RECURSIVE Decimal(_)
Decimal(n) ==
  IF n < 10 THEN CharAt(Digits, n + 1)
  ELSE Decimal(n \div 10) \o CharAt(Digits, (n % 10) + 1)

SizeUnits == <<"k", "M", "g">>

\* C25: the parsed size is no limit or a strictly positive byte count; '0'
\* and the empty string give no limit; '<n>k', '<n>m' and '<n>g' with n > 0
\* give n*1024, n*1024^2 and n*1024^3.
C25_SizePositive ==
  pc = "parsed" =>
    /\ \A limit \in args.max_size_bytes : positive(limit)
    /\ args.max_size \in {"", "0"} => args.max_size_bytes = None
    /\ \A n \in 1..22 : \A u \in 1..3 :
         args.max_size = Decimal(n) \o SizeUnits[u]
           => args.max_size_bytes = Some(times_1024_to(n, u))

-----------------------------------------------------------------------------
(* Unreadable directories and files *)

\* The nodes of the finished tree that stand for the entry at a path
NodesAt(path) == {n \in TreeNodes(Tree) : n.path = path /\ n.name # ErrorName}

\* The directories that refuse their listing and that the tree build of
\* copy.py comes to: no part of their path is an excluded directory name
DeniedDirs ==
  {e \in {Value(fs)[i] : i \in 1..Len(Value(fs))} :
     /\ e.kind = "dir" /\ e.access = "denied"
     /\ \A k \in 1..Len(e.parts) : e.parts[k] \notin ExcludedDirNames}

\* The entries beside an entry: same parent directory, another name, neither
\* a symbolic link nor gone
Siblings(e) ==
  {x \in {Value(fs)[i] : i \in 1..Len(Value(fs))} :
     /\ Len(x.parts) = Len(e.parts) /\ x.parts # e.parts
     /\ SubSeq(x.parts, 1, Len(x.parts) - 1) = SubSeq(e.parts, 1, Len(e.parts) - 1)
     /\ x.kind # "symlink" /\ x.access # "vanished"}

\* C21: when copy.py has finished with included files, the tree is built; a
\* directory that cannot be listed has its node, not included, whose only
\* child is one error placeholder with included = FALSE; and every sibling of
\* the directory has its node.
C21_UnreadableDirectory ==
  (IsCopy /\ pc = "done" /\ Value(analysis).included_files # <<>>) =>
    /\ TreeBuilt
    /\ \A e \in DeniedDirs :
         /\ Cardinality(NodesAt(e.parts)) = 1
         /\ \A n \in NodesAt(e.parts) :
              /\ ~n.included
              /\ Len(n.children) = 1
              /\ n.children[1].name = ErrorName /\ ~n.children[1].included
              /\ n.children[1].children = <<>>
         /\ \A x \in Siblings(e) : Cardinality(NodesAt(x.parts)) = 1

\* C21 witness: pkg could not be listed; the finished tree holds its node
\* with the placeholder, and the node of its sibling src with included files.
C21_Witness ==
  /\ IsCopy /\ pc = "done" /\ TreeBuilt
  /\ \E e \in DeniedDirs : e.parts = <<"pkg">>
  /\ \E n \in NodesAt(<<"pkg">>) : Len(n.children) = 1 /\ n.children[1].name = ErrorName
  /\ \E n \in NodesAt(<<"src">>) : n.included /\ n.children # <<>>

\* The included-file list of the finished run
IncludedFiles == Value(analysis).included_files

\* The files the walker has included whose content cannot be read
UnreadIncluded ==
  LET paths == IF IsCopy THEN Value(scanner).included_paths_temp
               ELSE Value(scanner).included_paths
  IN  {paths[i] : i \in {k \in 1..Len(paths) : paths[k].access # "ok"}}

\* The line count and the char count of an entry of either list
LinesOf(f) == IF IsCopy THEN f.lines ELSE f.line_count
CharsOf(f) == IF IsCopy THEN f.chars ELSE f.char_count

\* C23: in a finished run, every file that was included and whose content
\* could not be read has exactly one entry in the included-file list, with
\* line count 0, char count 0 and the error marker as content; and every
\* included file that could be read has its entry with its content.
C23_ReadFailurePlaceholder ==
  pc = "done" =>
    /\ \A e \in UnreadIncluded :
         /\ Cardinality({i \in 1..Len(IncludedFiles) :
                           IncludedFiles[i].relative_path = e.parts}) = 1
         /\ \A i \in 1..Len(IncludedFiles) :
              IncludedFiles[i].relative_path = e.parts =>
                /\ LinesOf(IncludedFiles[i]) = 0 /\ CharsOf(IncludedFiles[i]) = 0
                /\ IncludedFiles[i].content = ErrorMarker
    /\ \A p \in WalkerIncluded :
         (\A e \in UnreadIncluded : e.parts # p) =>
           \E i \in 1..Len(IncludedFiles) :
             /\ IncludedFiles[i].relative_path = p
             /\ IncludedFiles[i].content = Content

-----------------------------------------------------------------------------
(* The order and the completeness of the tree *)

\* The lists of sibling nodes of the finished tree: the top-level nodes and
\* the children of every node
SiblingLists == {Tree} \cup {n.children : n \in TreeNodes(Tree)}

\* Directories before files, then the case-insensitive name
OrderKey(n) == <<IF n.is_directory THEN 0 ELSE 1>> \o codes(lower(n.name))

\* C27: in the tree of a finished run, every list of sibling nodes has its
\* directories before its files, and each group in the order of the
\* case-insensitive names.
C27_SiblingOrder ==
  TreeBuilt =>
    \A nodes \in SiblingLists :
      \A i, j \in 1..Len(nodes) :
        i < j => ~seq_less(OrderKey(nodes[j]), OrderKey(nodes[i]))

\* The included-file list of a finished run as a set of paths
IncludedPaths == {IncludedFiles[i].relative_path : i \in 1..Len(IncludedFiles)}

\* C28: in the tree of a finished run, every included file has exactly one
\* node, with included = TRUE, and each directory above it has exactly one
\* node, with included = TRUE.
C28_IncludedFilesInTree ==
  TreeBuilt =>
    \A p \in IncludedPaths :
      \A k \in 1..Len(p) :
        LET nodes == {n \in TreeNodes(Tree) : n.path = SubSeq(p, 1, k)}
        IN  /\ Cardinality(nodes) = 1
            /\ \A n \in nodes : n.included /\ (n.is_directory <=> k < Len(p))

\* C28 witness: src/lib/util.py is included, and the tree holds its node and
\* the nodes of src and src/lib, all three included.
C28_Witness ==
  /\ TreeBuilt
  /\ <<"src", "lib", "util.py">> \in IncludedPaths
  /\ \A k \in 1..3 :
       \E n \in TreeNodes(Tree) :
         n.path = SubSeq(<<"src", "lib", "util.py">>, 1, k) /\ n.included

-----------------------------------------------------------------------------
(* scan() twice on one object *)

\* C29: what the scanner reports after every later call of scan() on the
\* same object is what it reported after the first call: the same list of
\* included files without duplicates (with the same lines, chars and
\* percentages), the same scanned count, excluded count and totals.
C29_RescanSameResults ==
  \A k \in 2..Len(runs) : runs[k] = runs[1]

====
